---- MODULE Spec2Model ----
(***************************************************************************)
(* Model of the must-gather parsing, correlation and analysis engine.      *)
(*                                                                         *)
(* The repository holds several independent components.  Each one is a     *)
(* small state machine over its own variables and has its own              *)
(* specification:                                                          *)
(*   SpecAnalyzer  src/analyzer.py  MCPAnalyzer  and                       *)
(*                 src/analyzers.py ClusterAnalyzer over one bundle        *)
(*   SpecPods      src/parsers.py pod builders + src/analyzers.py          *)
(*                 PodAnalyzer                                             *)
(*   SpecSelector  src/parser.py get_mcp_nodes / _node_matches_selector    *)
(*   SpecAgents    src/resources/agents.py                                 *)
(*   SpecClusters  src/resources/clusters.py                               *)
(*   SpecLogs      src/main.py get_logs over src/resources/logs.py         *)
(*   SpecSanitize  src/resources/tools.py sanitize_data                    *)
(*   SpecResolver  src/parse.py parse_must_gather and the other entry      *)
(*                 points that take a bundle path                          *)
(*   SpecScan      the per-directory file loops of src/parser.py and       *)
(*                 src/resources/agents.py                                 *)
(*   SpecPodDirs   src/resources/logs.py find_pod_logs and                 *)
(*                 find_pod_logs_directory                                 *)
(*   SpecGather    src/parser.py _parse_directory and its six passes       *)
(*   SpecStore     src/resources.py MustGatherResources and the            *)
(*                 operations keyed by a must-gather id                    *)
(* A Python dict is a TLA+ function whose DOMAIN is the set of keys that   *)
(* are present; dict.get(k, default) is Get(d, k, default).                *)
(***************************************************************************)
EXTENDS Integers, Sequences, FiniteSets, TLC

VARIABLES
    \* ---- SpecAnalyzer
    data,                 \* the parsed bundle: raw MCP / node / operator docs
    severity_threshold,   \* AnalysisConfig.severity_threshold
    result,               \* MCPAnalysisResult of MCPAnalyzer.analyze
    analysis,             \* dict returned by ClusterAnalyzer.analyze
    \* ---- SpecSelector
    current_data,         \* MCPMustGatherParser.current_data
    mcp_nodes,            \* the last get_mcp_nodes call and what it returned
    \* ---- SpecAgents
    agent_docs,           \* Agent documents of the bundle's namespaces
    found_agents,         \* the last AgentParser query and what it returned
    \* ---- SpecLogs
    log_lines,            \* lines of the pod's log file in the bundle
    log_calls,            \* the get_logs calls made so far, each with what it returned
    \* ---- SpecSanitize
    text,                 \* the string handed to sanitize_data, as a sequence of tokens
    passes,               \* the outputs of successive sanitize_data passes over it
    \* ---- SpecPods
    pod_data,             \* parsed data of the bundle: Pod documents of ns1, events
    pod_analysis,         \* the PodAnalyzer.analyze call made and the dict it returned
    \* ---- SpecClusters
    cluster_docs,         \* documents under namespaces/ns1/.../agentclusterinstalls
    failed_clusters,      \* what get_failed_clusters parsed and returned
    \* ---- SpecResolver
    must_gather_path,     \* the path handed to an entry point, and what is there
    parse_run,            \* the call made on the path and how it ended
    \* ---- SpecScan
    scan_files,           \* the files of one resource directory, in listing order
    scan_result,          \* the scan made of the directory and the documents it kept
    \* ---- SpecPodDirs
    bundle_dirs,          \* a pod directory of the bundle, or the listing of namespaces/
    dir_search,           \* the directory search made and what it found
    \* ---- SpecGather
    gather_passes,        \* the bundle's directories and where each pass is in its loop
    gathered,             \* the ParsedMustGatherData being filled, and whether it was returned
    \* ---- SpecStore
    storage,              \* the <id>.json files of storage_dir; the ids returned and removed
    store_call            \* the last operation keyed by a must-gather id and what it returned

vars == <<data, severity_threshold, result, analysis, current_data, mcp_nodes,
          agent_docs, found_agents, log_lines, log_calls, text, passes,
          pod_data, pod_analysis, cluster_docs, failed_clusters,
          must_gather_path, parse_run, scan_files, scan_result,
          bundle_dirs, dir_search, gather_passes, gathered, storage, store_call>>

----------------------------------------------------------------------------
(* Python helpers *)

\* Python's None
None == "None"

\* dict.get(k, default)
Get(d, k, default) == IF k \in DOMAIN d THEN d[k] ELSE default

\* [x for x in s if P(x)]
Filter(s, P(_)) ==
    LET F[i \in 0..Len(s)] ==
            IF i = 0 THEN <<>>
            ELSE IF P(s[i]) THEN Append(F[i - 1], s[i]) ELSE F[i - 1]
    IN F[Len(s)]

\* any(P(x) for x in s)
AnyOf(s, P(_)) == \E i \in 1..Len(s) : P(s[i])

\* next((x for x in s if P(x)), default)
NextOr(s, P(_), default) ==
    LET hits == {i \in 1..Len(s) : P(s[i])} IN
    IF hits = {} THEN default
    ELSE s[CHOOSE i \in hits : \A j \in hits : i <= j]

\* [f(x) for x in s]
Map(s, f(_)) == [i \in 1..Len(s) |-> f(s[i])]

\* list concatenation of [f(x) for x in s] where f returns a list
FlatMap(s, f(_)) ==
    LET F[i \in 0..Len(s)] == IF i = 0 THEN <<>> ELSE F[i - 1] \o f(s[i])
    IN F[Len(s)]

\* number of occurrences of x in s
Count(x, s) == Cardinality({i \in 1..Len(s) : s[i] = x})

\* a is obtained from b by deleting elements
RECURSIVE IsSubSeq(_, _)
IsSubSeq(a, b) ==
    IF a = <<>> THEN TRUE
    ELSE IF b = <<>> THEN FALSE
    ELSE IF Head(a) = Head(b) THEN IsSubSeq(Tail(a), Tail(b))
         ELSE IsSubSeq(a, Tail(b))

----------------------------------------------------------------------------
(* Bounds and sample inputs of SpecAnalyzer *)

MaxMcps == 2
MaxNodes == 1

\* status.conditions of a MachineConfigPool document.  A message is a string
\* of the tokens of sanitize_data's model (InputTokens): "x" is a word, and
\* "pwd=x" reports a credential.  lastTransitionTime is given by its age at
\* the time of the analysis, in minutes (datetime.now() minus the time).
CondSamples ==
    { << [type |-> "Degraded", status |-> "False", message |-> <<"x">>] >>,
      << [type |-> "Degraded", status |-> "False", message |-> <<"x">>],
         [type |-> "Updating", status |-> "True",  message |-> <<"x">>,
          lastTransitionTime |-> 45] >>,
      << [type |-> "Updating", status |-> "True",  message |-> <<"x">>,
          lastTransitionTime |-> 10],
         [type |-> "Degraded", status |-> "True",  message |-> <<"pwd", "=", "x">>] >> }

\* the count fields of status; an absent key is an absent field of the document
CountSamples ==
    { [machineCount |-> 5, readyMachineCount |-> 5],
      [machineCount |-> 3, readyMachineCount |-> 3, updatedMachineCount |-> 3,
       unavailableMachineCount |-> 0, degradedMachineCount |-> 0],
      [machineCount |-> 3, readyMachineCount |-> 2, updatedMachineCount |-> 2,
       unavailableMachineCount |-> 1, degradedMachineCount |-> 0],
      [machineCount |-> 4, readyMachineCount |-> 1, updatedMachineCount |-> 1,
       unavailableMachineCount |-> 0, degradedMachineCount |-> 1],
      [machineCount |-> 4, readyMachineCount |-> 4, updatedMachineCount |-> 2,
       unavailableMachineCount |-> 0, degradedMachineCount |-> 0],
      [machineCount |-> 0, readyMachineCount |-> 0, updatedMachineCount |-> 0,
       unavailableMachineCount |-> 0, degradedMachineCount |-> 0] }

\* MachineConfigPools are cluster-scoped, so the names in one bundle differ:
\* the i-th document of the bundle is named after its position
McpName(i) == ToString(i)

McpDocs(i) ==
    { [metadata |-> [name |-> McpName(i)],
       status |-> counts @@ [conditions |-> conds]] :
         conds \in CondSamples, counts \in CountSamples }

NodeDocs ==
    { [metadata |-> [name |-> "node-0"],
       status |-> [conditions |->
           << [type |-> "Ready", status |-> s, reason |-> "KubeletReady",
               message |-> <<"user", " ", "x">>] >>]] : s \in {"True", "False"} }

\* the cluster operators of the bundle, as built by _parse_cluster_operators
OperatorSamples ==
    { <<>>,
      << [name |-> "dns", available |-> TRUE,  degraded |-> FALSE, progressing |-> FALSE] >>,
      << [name |-> "dns", available |-> FALSE, degraded |-> FALSE, progressing |-> TRUE] >>,
      << [name |-> "dns", available |-> FALSE, degraded |-> TRUE,  progressing |-> FALSE] >> }

Severities == {"info", "warning", "critical"}

NoResult == [none |-> TRUE]

\* None held by an attribute whose other values are dicts
NoData == [none |-> TRUE]

\* every component other than the given one is not in use
OthersIdle(component) ==
    /\ IF component = "analyzer" THEN TRUE
       ELSE /\ data = NoData /\ severity_threshold = None
            /\ result = NoResult /\ analysis = NoResult
    /\ IF component = "selector" THEN TRUE
       ELSE current_data = NoData /\ mcp_nodes = NoResult
    /\ IF component = "agents" THEN TRUE
       ELSE agent_docs = <<>> /\ found_agents = NoResult
    /\ IF component = "logs" THEN TRUE
       ELSE log_lines = <<>> /\ log_calls = {}
    /\ IF component = "sanitize" THEN TRUE
       ELSE text = <<>> /\ passes = <<>>
    /\ IF component = "pods" THEN TRUE
       ELSE pod_data = NoData /\ pod_analysis = NoResult
    /\ IF component = "clusters" THEN TRUE
       ELSE cluster_docs = <<>> /\ failed_clusters = NoResult
    /\ IF component = "resolver" THEN TRUE
       ELSE must_gather_path = NoData /\ parse_run = NoResult
    /\ IF component = "scan" THEN TRUE
       ELSE scan_files = <<>> /\ scan_result = NoResult
    /\ IF component = "poddirs" THEN TRUE
       ELSE bundle_dirs = NoData /\ dir_search = NoResult
    /\ IF component = "gather" THEN TRUE
       ELSE gather_passes = NoData /\ gathered = NoResult
    /\ IF component = "store" THEN TRUE
       ELSE storage = NoData /\ store_call = NoResult

\* ... and takes no step
OthersUnchanged(component) ==
    /\ IF component = "analyzer" THEN TRUE
       ELSE UNCHANGED <<data, severity_threshold, result, analysis>>
    /\ IF component = "selector" THEN TRUE
       ELSE UNCHANGED <<current_data, mcp_nodes>>
    /\ IF component = "agents" THEN TRUE
       ELSE UNCHANGED <<agent_docs, found_agents>>
    /\ IF component = "logs" THEN TRUE
       ELSE UNCHANGED <<log_lines, log_calls>>
    /\ IF component = "sanitize" THEN TRUE
       ELSE UNCHANGED <<text, passes>>
    /\ IF component = "pods" THEN TRUE
       ELSE UNCHANGED <<pod_data, pod_analysis>>
    /\ IF component = "clusters" THEN TRUE
       ELSE UNCHANGED <<cluster_docs, failed_clusters>>
    /\ IF component = "resolver" THEN TRUE
       ELSE UNCHANGED <<must_gather_path, parse_run>>
    /\ IF component = "scan" THEN TRUE
       ELSE UNCHANGED <<scan_files, scan_result>>
    /\ IF component = "poddirs" THEN TRUE
       ELSE UNCHANGED <<bundle_dirs, dir_search>>
    /\ IF component = "gather" THEN TRUE
       ELSE UNCHANGED <<gather_passes, gathered>>
    /\ IF component = "store" THEN TRUE
       ELSE UNCHANGED <<storage, store_call>>

----------------------------------------------------------------------------
(* src/analyzer.py : MCPAnalyzer *)

\* _convert_mcps: one MCPStatusInfo per raw document, every field defaulted.
\* MCPCondition is built from type, status, reason and message only, so its
\* last_transition_time keeps the default None.
ConvertMcps(raw_mcps) ==
    LET ConvertCondition(cond_data) ==
            [type |-> Get(cond_data, "type", ""),
             status |-> Get(cond_data, "status", ""),
             message |-> Get(cond_data, "message", None),
             last_transition_time |-> None]
        ConvertMcp(mcp_data) ==
            LET status == Get(mcp_data, "status", <<>>) IN
            [name |-> Get(Get(mcp_data, "metadata", <<>>), "name", "unknown"),
             ready_machine_count |-> Get(status, "readyMachineCount", 0),
             updated_machine_count |-> Get(status, "updatedMachineCount", 0),
             unavailable_machine_count |-> Get(status, "unavailableMachineCount", 0),
             machine_count |-> Get(status, "machineCount", 0),
             conditions |-> Map(Get(status, "conditions", <<>>), ConvertCondition)]
    IN Map(raw_mcps, ConvertMcp)

\* _convert_nodes
ConvertNodes(raw_nodes) ==
    LET IsReadyTrue(cond) ==
            Get(cond, "type", None) = "Ready" /\ Get(cond, "status", None) = "True"
        ConvertNode(node_data) ==
            LET conditions == Get(Get(node_data, "status", <<>>), "conditions", <<>>) IN
            [name |-> Get(Get(node_data, "metadata", <<>>), "name", "unknown"),
             conditions |-> conditions,
             ready |-> AnyOf(conditions, IsReadyTrue)]
    IN Map(raw_nodes, ConvertNode)

\* MCPIssue; description is the text of the bundle that the f-string of the
\* description embeds (a condition message), empty when it embeds none
MCPIssue(severity, category, title, description) ==
    [severity |-> severity, category |-> category, title |-> title,
     description |-> description]

\* the None of next((c for c in mcp.conditions if ...), None)
NoCondition == [type |-> None, status |-> None, message |-> None,
                last_transition_time |-> None]

\* _check_degraded_mcps
CheckDegradedMcps(mcps) ==
    LET IsDegradedType(cond) == cond.type = "Degraded"
        DegradedIssues(mcp) ==
            LET degraded_condition == NextOr(mcp.conditions, IsDegradedType, NoCondition) IN
            IF degraded_condition # NoCondition /\ degraded_condition.status = "True"
            THEN << MCPIssue("critical", "degraded", "is degraded",
                             degraded_condition.message) >>
            ELSE <<>>
    IN FlatMap(mcps, DegradedIssues)

\* mutant: the severity changes at a gap of 2 instead of above it
CheckUpdatingMcps_CriticalFromTwo(mcps) ==
    LET OutdatedIssues(mcp) ==
            IF mcp.machine_count > 0 /\ mcp.updated_machine_count < mcp.machine_count
            THEN LET outdated_count == mcp.machine_count - mcp.updated_machine_count IN
                 << MCPIssue(IF outdated_count < 2 THEN "warning" ELSE "critical",
                             "updating", "has outdated machines", <<>>) >>
            ELSE <<>>
    IN FlatMap(mcps, OutdatedIssues)

\* _check_updating_mcps: the stuck branch needs a last_transition_time on
\* the converted condition, more than 30 minutes old
CheckUpdatingMcps(mcps) ==
    LET IsUpdatingType(cond) == cond.type = "Updating"
        StuckIssues(mcp) ==
            LET updating_condition == NextOr(mcp.conditions, IsUpdatingType, NoCondition) IN
            IF /\ updating_condition # NoCondition
               /\ updating_condition.status = "True"
               /\ updating_condition.last_transition_time # None
               /\ updating_condition.last_transition_time > 30
            THEN << MCPIssue("warning", "updating", "stuck updating",
                             updating_condition.message) >>
            ELSE <<>>
        OutdatedIssues(mcp) ==
            IF mcp.machine_count > 0 /\ mcp.updated_machine_count < mcp.machine_count
            THEN LET outdated_count == mcp.machine_count - mcp.updated_machine_count IN
                 << MCPIssue(IF outdated_count <= 2 THEN "warning" ELSE "critical",
                             "updating", "has outdated machines", <<>>) >>
            ELSE <<>>
        UpdatingIssues(mcp) == StuckIssues(mcp) \o OutdatedIssues(mcp)
    IN FlatMap(mcps, UpdatingIssues)

\* _check_node_readiness
CheckNodeReadiness(nodes) ==
    LET IsReadyType(cond) == Get(cond, "type", None) = "Ready"
        NodeIssues(node) ==
            LET not_ready_condition == NextOr(node.conditions, IsReadyType, <<>>)
                message == Get(not_ready_condition, "message", <<"x">>)
            IN IF ~node.ready
               THEN << MCPIssue("critical", "nodes", "node is not ready", message) >>
               ELSE <<>>
    IN FlatMap(nodes, NodeIssues)

\* _check_machine_config_drift
CheckMachineConfigDrift(mcps) ==
    LET DriftIssues(mcp) ==
            IF mcp.unavailable_machine_count > 0
            THEN << MCPIssue("warning", "configuration", "has unavailable machines",
                             <<>>) >>
            ELSE <<>>
    IN FlatMap(mcps, DriftIssues)

\* _filter_issues_by_severity
severity_order == [info |-> 0, warning |-> 1, critical |-> 2]

\* mutant: ">" in place of ">="
FilterIssuesBySeverity_Strict(issues, threshold_name) ==
    LET threshold == Get(severity_order, threshold_name, 1)
        Keep(issue) == Get(severity_order, issue.severity, 0) > threshold
    IN Filter(issues, Keep)

FilterIssuesBySeverity(issues, threshold_name) ==
    LET threshold == Get(severity_order, threshold_name, 1)
        Keep(issue) == Get(severity_order, issue.severity, 0) >= threshold
    IN Filter(issues, Keep)

\* _generate_summary:
\* any(c.type == type and c.status == 'True' for c in mcp.conditions)
HasTrueCondition(mcp, type) ==
    \E i \in 1..Len(mcp.conditions) :
        mcp.conditions[i].type = type /\ mcp.conditions[i].status = "True"

\* mutant: "if is_updating" in place of "elif is_updating"
InUpdatingBucket_If(mcp) == HasTrueCondition(mcp, "Updating")

\* the elif branch of "if is_degraded ... elif is_updating ... else"
InUpdatingBucket(mcp) ==
    ~HasTrueCondition(mcp, "Degraded") /\ HasTrueCondition(mcp, "Updating")

OverallHealth(critical_issues) ==
    IF critical_issues = <<>> THEN "healthy"
    ELSE IF critical_issues # <<>> THEN "critical" ELSE "warning"

GenerateSummary(res) ==
    LET IsCritical(issue) == issue.severity = "critical"
        IsWarning(issue) == issue.severity = "warning"
        IsInfo(issue) == issue.severity = "info"
        InDegradedBucket(mcp) == HasTrueCondition(mcp, "Degraded")
        InHealthyBucket(mcp) ==
            ~HasTrueCondition(mcp, "Degraded") /\ ~HasTrueCondition(mcp, "Updating")
        NodeIsReady(node) == node.ready
        NodeNotReady(node) == ~node.ready
        critical_issues == Filter(res.issues, IsCritical)
        warning_issues == Filter(res.issues, IsWarning)
        info_issues == Filter(res.issues, IsInfo)
        healthy_mcps == Filter(res.mcps, InHealthyBucket)
        degraded_mcps == Filter(res.mcps, InDegradedBucket)
        updating_mcps == Filter(res.mcps, InUpdatingBucket)
        Name(mcp) == mcp.name
    IN [total_issues |-> Len(res.issues),
        critical_issues |-> Len(critical_issues),
        warning_issues |-> Len(warning_issues),
        info_issues |-> Len(info_issues),
        mcp_status |-> [healthy |-> Len(healthy_mcps),
                        degraded |-> Len(degraded_mcps),
                        updating |-> Len(updating_mcps),
                        healthy_mcps |-> Map(healthy_mcps, Name),
                        degraded_mcps |-> Map(degraded_mcps, Name),
                        updating_mcps |-> Map(updating_mcps, Name)],
        node_status |-> [ready |-> Len(Filter(res.nodes, NodeIsReady)),
                         not_ready |-> Len(Filter(res.nodes, NodeNotReady))],
        overall_health |-> OverallHealth(critical_issues)]

\* the issues of all enabled checks, before the severity filter
RuleIssues(mcps, nodes) ==
    CheckDegradedMcps(mcps) \o CheckUpdatingMcps(mcps)
        \o CheckNodeReadiness(nodes) \o CheckMachineConfigDrift(mcps)

\* MCPAnalyzer.analyze
MCPAnalyze(d, threshold_name) ==
    LET mcps == ConvertMcps(d.mcps)
        nodes == ConvertNodes(d.nodes)
        issues == FilterIssuesBySeverity(RuleIssues(mcps, nodes), threshold_name)
        res == [mcps |-> mcps, nodes |-> nodes, issues |-> issues]
    IN res @@ [summary |-> GenerateSummary(res)]

----------------------------------------------------------------------------
(* src/parsers.py : the records MustGatherParser builds for ClusterAnalyzer *)

\* _parse_extracted_data, the keys ClusterAnalyzer reads:
\* _parse_machine_config_pools, _parse_nodes and _get_node_status
ParseExtractedData(d) ==
    LET ParseMachineConfigPool(doc) ==
            LET status == Get(doc, "status", <<>>) IN
            [name |-> Get(Get(doc, "metadata", <<>>), "name", "unknown"),
             machine_count |-> Get(status, "machineCount", 0),
             ready_machine_count |-> Get(status, "readyMachineCount", 0),
             updated_machine_count |-> Get(status, "updatedMachineCount", 0),
             degraded_machine_count |-> Get(status, "degradedMachineCount", 0),
             conditions |-> Get(status, "conditions", <<>>)]
        IsReadyType(cond) == Get(cond, "type", None) = "Ready"
        GetNodeStatus(node_doc) ==
            LET conditions == Get(Get(node_doc, "status", <<>>), "conditions", <<>>)
                ready == NextOr(conditions, IsReadyType, <<>>)
            IN IF ready = <<>> THEN "Unknown"
               ELSE IF Get(ready, "status", None) = "True" THEN "Ready" ELSE "NotReady"
        ParseNodeInfo(doc) ==
            [name |-> Get(Get(doc, "metadata", <<>>), "name", "unknown"),
             status |-> GetNodeStatus(doc),
             conditions |-> Get(Get(doc, "status", <<>>), "conditions", <<>>)]
    IN [cluster_operators |-> d.cluster_operators,
        machine_config_pools |-> Map(d.mcps, ParseMachineConfigPool),
        nodes |-> Map(d.nodes, ParseNodeInfo)]

----------------------------------------------------------------------------
(* src/analyzers.py : ClusterAnalyzer.analyze *)

\* the if / elif / else that increments one of the three counters
McpBucket(mcp) ==
    LET machine_count == Get(mcp, "machine_count", 0)
        ready_count == Get(mcp, "ready_machine_count", 0)
        degraded_count == Get(mcp, "degraded_machine_count", 0)
    IN IF degraded_count > 0 THEN "degraded"
       ELSE IF ready_count = machine_count /\ machine_count > 0 THEN "healthy"
       ELSE "updating"

\* the "status" expression of the details entry
McpDetailStatus(mcp) ==
    LET machine_count == Get(mcp, "machine_count", 0)
        ready_count == Get(mcp, "ready_machine_count", 0)
        degraded_count == Get(mcp, "degraded_machine_count", 0)
    IN IF degraded_count > 0 THEN "degraded"
       ELSE IF ready_count = machine_count THEN "healthy" ELSE "updating"

ClusterOverallHealth(critical_issues, warnings, operators, nodes) ==
    IF critical_issues # <<>> THEN "critical"
    ELSE IF warnings # <<>> THEN "warning"
    ELSE IF /\ operators.available = operators.total
            /\ nodes.ready = nodes.total
         THEN "healthy"
    ELSE "degraded"

ClusterAnalyze(parsed, include_degraded_only) ==
    LET operators == Get(parsed, "cluster_operators", <<>>)
        mcps == Get(parsed, "machine_config_pools", <<>>)
        nodes == Get(parsed, "nodes", <<>>)
        OpAvailable(op) == Get(op, "available", FALSE)
        OpDegraded(op) == Get(op, "degraded", FALSE)
        OpProgressing(op) == Get(op, "progressing", FALSE)
        McpIsBucketDegraded(mcp) == McpBucket(mcp) = "degraded"
        McpIsBucketHealthy(mcp) == McpBucket(mcp) = "healthy"
        McpIsBucketUpdating(mcp) == McpBucket(mcp) = "updating"
        McpDetail(mcp) ==
            [name |-> mcp.name,
             machine_count |-> Get(mcp, "machine_count", 0),
             ready_count |-> Get(mcp, "ready_machine_count", 0),
             updated_count |-> Get(mcp, "updated_machine_count", 0),
             degraded_count |-> Get(mcp, "degraded_machine_count", 0),
             status |-> McpDetailStatus(mcp)]
        NodeStatusReady(node) == Get(node, "status", None) = "Ready"
        NodeStatusNotReady(node) == ~NodeStatusReady(node)
        IsPressure(cond) ==
            /\ Get(cond, "type", None) \in {"MemoryPressure", "DiskPressure", "PIDPressure"}
            /\ Get(cond, "status", None) = "True"
        NodePressureWarnings(node) ==
            IF NodeStatusReady(node) THEN <<>>
            ELSE Map(Filter(Get(node, "conditions", <<>>), IsPressure),
                     LAMBDA c : "node has pressure")
        critical_issues ==
            Map(Filter(operators, OpDegraded), LAMBDA o : "operator is degraded")
            \o Map(Filter(mcps, McpIsBucketDegraded), LAMBDA m : "pool has degraded machines")
            \o Map(Filter(nodes, NodeStatusNotReady), LAMBDA n : "node is not ready")
        warnings ==
            Map(Filter(mcps, McpIsBucketUpdating), LAMBDA m : "pool is updating")
            \o FlatMap(nodes, NodePressureWarnings)
        info == Map(Filter(operators, OpProgressing), LAMBDA o : "operator is progressing")
        ShowOperator(op) == ~include_degraded_only \/ OpDegraded(op)
        ShowMcp(mcp) ==
            ~include_degraded_only \/ Get(mcp, "degraded_machine_count", 0) > 0
        operator_counts ==
            [total |-> Len(operators),
             available |-> Len(Filter(operators, OpAvailable)),
             degraded |-> Len(Filter(operators, OpDegraded)),
             progressing |-> Len(Filter(operators, OpProgressing)),
             details |-> Filter(operators, ShowOperator)]
        node_counts ==
            [total |-> Len(nodes),
             ready |-> Len(Filter(nodes, NodeStatusReady)),
             not_ready |-> Len(Filter(nodes, NodeStatusNotReady))]
    IN [overall_health |->
            ClusterOverallHealth(critical_issues, warnings, operator_counts, node_counts),
        critical_issues |-> critical_issues,
        warnings |-> warnings,
        info |-> info,
        cluster_operators |-> operator_counts,
        machine_config_pools |->
            [total |-> Len(mcps),
             healthy |-> Len(Filter(mcps, McpIsBucketHealthy)),
             updating |-> Len(Filter(mcps, McpIsBucketUpdating)),
             degraded |-> Len(Filter(mcps, McpIsBucketDegraded)),
             details |-> Map(Filter(mcps, ShowMcp), McpDetail)],
        nodes |-> node_counts,
        parsed |-> parsed]

----------------------------------------------------------------------------
(* SpecAnalyzer : actions *)

InitAnalyzer ==
    /\ data = [mcps |-> <<>>, nodes |-> <<>>, cluster_operators |-> <<>>]
    /\ severity_threshold = "warning"
    /\ result = NoResult
    /\ analysis = NoResult
    /\ OthersIdle("analyzer")

NotAnalyzed == result = NoResult /\ analysis = NoResult

\* _parse_mcps appends one document per file
ParseMcp ==
    /\ NotAnalyzed
    /\ Len(data.mcps) < MaxMcps
    /\ \E doc \in McpDocs(Len(data.mcps) + 1) :
          data' = [data EXCEPT !.mcps = Append(@, doc)]
    /\ UNCHANGED <<severity_threshold, result, analysis>>
    /\ OthersUnchanged("analyzer")

\* _parse_nodes appends one document per file
ParseNode ==
    /\ NotAnalyzed
    /\ Len(data.nodes) < MaxNodes
    /\ \E doc \in NodeDocs : data' = [data EXCEPT !.nodes = Append(@, doc)]
    /\ UNCHANGED <<severity_threshold, result, analysis>>
    /\ OthersUnchanged("analyzer")

ParseClusterOperators ==
    /\ NotAnalyzed
    /\ data.cluster_operators = <<>>
    /\ \E ops \in OperatorSamples \ {<<>>} :
          data' = [data EXCEPT !.cluster_operators = ops]
    /\ UNCHANGED <<severity_threshold, result, analysis>>
    /\ OthersUnchanged("analyzer")

SetSeverityThreshold ==
    /\ NotAnalyzed
    /\ \E t \in Severities \ {severity_threshold} : severity_threshold' = t
    /\ UNCHANGED <<data, result, analysis>>
    /\ OthersUnchanged("analyzer")

Analyze ==
    /\ NotAnalyzed
    /\ result' = MCPAnalyze(data, severity_threshold)
    /\ UNCHANGED <<data, severity_threshold, analysis>>
    /\ OthersUnchanged("analyzer")

\* ClusterAnalyzer.analyze over the data MustGatherParser stored for the bundle
AnalyzeClusterHealth ==
    /\ NotAnalyzed
    /\ \E include_degraded_only \in BOOLEAN :
          analysis' = ClusterAnalyze(ParseExtractedData(data), include_degraded_only)
    /\ UNCHANGED <<data, severity_threshold, result>>
    /\ OthersUnchanged("analyzer")

NextAnalyzer ==
    \/ ParseMcp
    \/ ParseNode
    \/ ParseClusterOperators
    \/ SetSeverityThreshold
    \/ Analyze
    \/ AnalyzeClusterHealth

SpecAnalyzer == InitAnalyzer /\ [][NextAnalyzer]_vars

----------------------------------------------------------------------------
(* SpecAnalyzer : properties *)

\* the order info < warning < critical of the specification
SeverityLevel(s) == CASE s = "info" -> 1 [] s = "warning" -> 2 [] s = "critical" -> 3

\* the unfiltered issues of the bundle in the current state
BundleIssues == RuleIssues(ConvertMcps(data.mcps), ConvertNodes(data.nodes))

\* C1: the summary's overall_health is "critical" if a returned issue is
\* critical, else "warning" if any issue was returned, else "healthy".
C1_OverallHealthFromIssues ==
    result # NoResult =>
        result.summary.overall_health =
            IF \E i \in 1..Len(result.issues) : result.issues[i].severity = "critical"
            THEN "critical"
            ELSE IF result.issues # <<>> THEN "warning" ELSE "healthy"

\* C2: severity filtering is monotonic.  For thresholds t1 <= t2 the issues
\* kept under t2 are a sub-list of those kept under t1, and every issue whose
\* severity is not strictly below the threshold is kept.
C2_FilterMonotonic ==
    LET issues == BundleIssues
        kept == [t \in Severities |-> FilterIssuesBySeverity(issues, t)]
        Retained(out, t) ==
            \A i \in 1..Len(issues) :
                SeverityLevel(issues[i].severity) >= SeverityLevel(t) =>
                    Count(issues[i], out) = Count(issues[i], issues)
    IN /\ \A t1, t2 \in Severities :
             SeverityLevel(t1) <= SeverityLevel(t2) => IsSubSeq(kept[t2], kept[t1])
       /\ \A t \in Severities : Retained(kept[t], t)
       /\ result # NoResult => Retained(result.issues, severity_threshold)

\* an analysis under threshold "critical" dropped a warning and kept a critical issue
C2_Witness ==
    /\ result # NoResult
    /\ severity_threshold = "critical"
    /\ result.issues # <<>>
    /\ Len(result.issues) < Len(BundleIssues)

\* C3: every MCP is placed in exactly one of healthy, degraded, updating;
\* degraded wins over updating and updating over healthy; the three counts
\* sum to the number of MCPs (in the MCPAnalyzer summary and in the
\* ClusterAnalyzer counters).
C3_McpStateExclusiveTotal ==
    /\ result # NoResult =>
          LET s == result.summary.mcp_status IN
          /\ s.healthy + s.degraded + s.updating = Len(result.mcps)
          /\ \A i \in 1..Len(result.mcps) :
                LET mcp == result.mcps[i]
                    inH == Count(mcp.name, s.healthy_mcps)
                    inD == Count(mcp.name, s.degraded_mcps)
                    inU == Count(mcp.name, s.updating_mcps)
                IN /\ inH + inD + inU = 1
                   /\ HasTrueCondition(mcp, "Degraded") => inD = 1
                   /\ (~HasTrueCondition(mcp, "Degraded")
                          /\ HasTrueCondition(mcp, "Updating")) => inU = 1
                   /\ (~HasTrueCondition(mcp, "Degraded")
                          /\ ~HasTrueCondition(mcp, "Updating")) => inH = 1
    /\ analysis # NoResult =>
          LET p == analysis.machine_config_pools
              pools == analysis.parsed.machine_config_pools
          IN /\ p.healthy + p.degraded + p.updating = Len(pools)
             /\ p.total = Len(pools)
             /\ p.degraded = Cardinality({i \in 1..Len(pools) :
                                            pools[i].degraded_machine_count > 0})

\* a summary over two MCPs, one degraded and updating at once, one only updating
C3_Witness ==
    /\ result # NoResult
    /\ Len(result.mcps) = 2
    /\ HasTrueCondition(result.mcps[1], "Degraded")
    /\ HasTrueCondition(result.mcps[1], "Updating")
    /\ ~HasTrueCondition(result.mcps[2], "Degraded")
    /\ HasTrueCondition(result.mcps[2], "Updating")
    /\ result.summary.mcp_status.degraded = 1
    /\ result.summary.mcp_status.updating = 1

\* C24: for every MCP with updated_machine_count < machine_count the
\* outdated-machines rule emits exactly one issue, a warning for a gap of at
\* most 2 machines and critical above; an MCP whose updated_machine_count is
\* not below machine_count gets none.  The issues returned are those of the
\* rule that the severity threshold lets through.
C24_OutdatedMachinesSeverity ==
    result # NoResult =>
        LET IsOutdated(issue) == issue.title = "has outdated machines"
            Emitted(mcp) == Filter(CheckUpdatingMcps(<<mcp>>), IsOutdated)
            Expected(mcp) ==
                IF mcp.updated_machine_count < mcp.machine_count
                THEN << MCPIssue(IF mcp.machine_count - mcp.updated_machine_count <= 2
                                 THEN "warning" ELSE "critical",
                                 "updating", "has outdated machines", <<>>) >>
                ELSE <<>>
        IN /\ \A i \in 1..Len(result.mcps) : Emitted(result.mcps[i]) = Expected(result.mcps[i])
           /\ Filter(result.issues, IsOutdated)
                = FilterIssuesBySeverity(FlatMap(result.mcps, Expected), severity_threshold)

C24_Witness ==
    /\ result # NoResult
    /\ severity_threshold = "warning"
    /\ Len(result.mcps) = 2
    /\ result.mcps[1].machine_count - result.mcps[1].updated_machine_count = 2
    /\ result.mcps[2].machine_count - result.mcps[2].updated_machine_count = 3
    /\ \E i, j \in 1..Len(result.issues) :
          /\ i < j
          /\ result.issues[i].title = "has outdated machines"
          /\ result.issues[i].severity = "warning"
          /\ result.issues[j].title = "has outdated machines"
          /\ result.issues[j].severity = "critical"

\* C25: analysis emits one 'stuck updating' warning per MCP whose Updating
\* condition is True with a last-transition time in the bundle more than 30
\* minutes before the analysis, and none for a transition 30 minutes old or
\* less.
C25_StuckUpdatingAfterThirtyMinutes ==
    result # NoResult =>
        LET IsStuckIssue(issue) == issue.title = "stuck updating" /\ issue.severity = "warning"
            IsStuck(doc) ==
                LET IsUpdating(cond) == cond.type = "Updating"
                    updating == NextOr(doc.status.conditions, IsUpdating, <<>>)
                IN /\ updating # <<>>
                   /\ updating.status = "True"
                   /\ updating.lastTransitionTime > 30
        IN Len(Filter(BundleIssues, IsStuckIssue)) = Len(Filter(data.mcps, IsStuck))

C11_MinimalHealthyMcpHasNoIssue ==
    LET IsMinimalHealthyMcpDoc(doc) ==
            /\ DOMAIN doc.status = {"machineCount", "readyMachineCount", "conditions"}
            /\ doc.status.machineCount = 5
            /\ doc.status.readyMachineCount = 5
            /\ Len(doc.status.conditions) = 1
            /\ doc.status.conditions[1].type = "Degraded"
            /\ doc.status.conditions[1].status = "False"
    IN (/\ result # NoResult
        /\ Len(data.mcps) = 1
        /\ IsMinimalHealthyMcpDoc(data.mcps[1])
        /\ data.nodes = <<>>) =>
           /\ result.summary.mcp_status.healthy_mcps = << McpName(1) >>
           /\ result.issues = <<>>
           /\ result.summary.total_issues = 0

\* C13: parse followed by analyze gives the same issues (as a multiset) and
\* the same summary whatever the order in which the directory listing hands
\* the MachineConfigPool files of the bundle to the parser.
C13_AnalyzeIndependentOfListingOrder ==
    result # NoResult =>
        LET Reverse(s) == [i \in 1..Len(s) |-> s[Len(s) + 1 - i]]
            other == MCPAnalyze([data EXCEPT !.mcps = Reverse(@)], severity_threshold)
            SameBag(a, b) ==
                /\ Len(a) = Len(b)
                /\ \A i \in 1..Len(a) : Count(a[i], a) = Count(a[i], b)
        IN /\ SameBag(result.issues, other.issues)
           /\ other.summary = result.summary

----------------------------------------------------------------------------
(* src/parser.py : MCPMustGatherParser, nodes of a MachineConfigPool *)

MaxSelectorMcps == 1
MaxSelectorNodes == 2

\* label maps over two keys; an absent key is an absent label.  The empty
\* string is a common label value (node-role.kubernetes.io/worker: "")
LabelMaps ==
    LET RoleValues == {"worker", "master", ""}
        ZoneValues == {"us-east"}
    IN {<<>>}
       \cup {[role |-> r] : r \in RoleValues}
       \cup {[zone |-> z] : z \in ZoneValues}
       \cup {[role |-> r, zone |-> z] : r \in RoleValues, z \in ZoneValues}

\* a MachineConfigPool document: with a nodeSelector.matchLabels map, or
\* without any nodeSelector
SelectorMcpDocs(i) ==
    {[metadata |-> [name |-> McpName(i)], spec |-> <<>>]}
    \cup {[metadata |-> [name |-> McpName(i)],
           spec |-> [nodeSelector |-> [matchLabels |-> sel]]] : sel \in LabelMaps}

\* all bundles: lists of at most n documents, the i-th drawn from Docs(i)
DocLists(Docs(_), n) ==
    UNION {{s \in [1..k -> UNION {Docs(i) : i \in 1..k}] :
                \A i \in 1..k : s[i] \in Docs(i)} : k \in 0..n}

\* the i-th Node document of a bundle, named after its position
NodeDocsAt(i) ==
    {[metadata |-> [name |-> ToString(i), labels |-> labels]] : labels \in LabelMaps}

\* _convert_mcp_to_config, the fields get_mcp_nodes reads
ConvertMcpToConfig(mcp_data) ==
    LET spec == Get(mcp_data, "spec", <<>>) IN
    [name |-> Get(Get(mcp_data, "metadata", <<>>), "name", "unknown"),
     node_selector |->
         [match_labels |-> Get(Get(spec, "nodeSelector", <<>>), "matchLabels", <<>>),
          match_expressions |-> Get(Get(spec, "nodeSelector", <<>>), "matchExpressions", <<>>)]]

\* get_mcp_config: the first MCP of that name, or None (NoData)
GetMcpConfig(cd, mcp_name) ==
    IF cd = NoData THEN NoData
    ELSE LET hits == {i \in 1..Len(cd.mcps) :
                        Get(Get(cd.mcps[i], "metadata", <<>>), "name", None) = mcp_name}
         IN IF hits = {} THEN NoData
            ELSE ConvertMcpToConfig(cd.mcps[CHOOSE i \in hits : \A j \in hits : i <= j])

\* mutant: an absent label is taken to equal the selector's value
NodeMatchesSelector_AbsentMatches(node_labels, selector) ==
    \A key \in DOMAIN selector.match_labels :
        ~(Get(node_labels, key, selector.match_labels[key]) # selector.match_labels[key])

\* _node_matches_selector: return False at the first key whose value differs,
\* True otherwise; match_expressions are not evaluated
NodeMatchesSelector(node_labels, selector) ==
    \A key \in DOMAIN selector.match_labels :
        ~(Get(node_labels, key, None) # selector.match_labels[key])

\* get_mcp_nodes
GetMcpNodes(cd, mcp_name) ==
    IF cd = NoData THEN <<>>
    ELSE LET mcp_config == GetMcpConfig(cd, mcp_name) IN
         IF mcp_config = NoData THEN <<>>
         ELSE LET Matches(node_data) ==
                      NodeMatchesSelector(
                          Get(Get(node_data, "metadata", <<>>), "labels", <<>>),
                          mcp_config.node_selector)
                  NameOf(node_data) ==
                      Get(Get(node_data, "metadata", <<>>), "name", "unknown")
              IN Map(Filter(cd.nodes, Matches), NameOf)

InitSelector ==
    /\ current_data = NoData
    /\ mcp_nodes = NoResult
    /\ OthersIdle("selector")

\* parse_must_gather: current_data becomes the documents of the bundle;
\* mcp_nodes holds the value returned by the latest get_mcp_nodes call on the
\* current data
ParseMustGather ==
    /\ current_data = NoData
    /\ \E mcps \in DocLists(SelectorMcpDocs, MaxSelectorMcps),
          nodes \in DocLists(NodeDocsAt, MaxSelectorNodes) :
          current_data' = [mcps |-> mcps, nodes |-> nodes]
    /\ mcp_nodes' = NoResult
    /\ OthersUnchanged("selector")

\* get_mcp_nodes(mcp_name), before or after a bundle was parsed
CallGetMcpNodes ==
    /\ mcp_nodes = NoResult
    /\ \E mcp_name \in {McpName(i) : i \in 1..MaxSelectorMcps + 1} :
          mcp_nodes' = [mcp_name |-> mcp_name,
                        nodes |-> GetMcpNodes(current_data, mcp_name)]
    /\ UNCHANGED current_data
    /\ OthersUnchanged("selector")

NextSelector ==
    \/ ParseMustGather
    \/ CallGetMcpNodes

SpecSelector == InitSelector /\ [][NextSelector]_vars

----------------------------------------------------------------------------
(* SpecSelector : properties *)

\* a get_mcp_nodes call found the MCP it was asked about
QueryResolved ==
    /\ mcp_nodes # NoResult
    /\ current_data # NoData
    /\ \E i \in 1..Len(current_data.mcps) :
          current_data.mcps[i].metadata.name = mcp_nodes.mcp_name

\* the match-labels map of that MachineConfigPool document ({} when it has none)
QueriedMatchLabels ==
    LET hits == {i \in 1..Len(current_data.mcps) :
                    current_data.mcps[i].metadata.name = mcp_nodes.mcp_name}
        doc == current_data.mcps[CHOOSE i \in hits : \A j \in hits : i <= j]
    IN IF "nodeSelector" \in DOMAIN doc.spec THEN doc.spec.nodeSelector.matchLabels
       ELSE <<>>

\* C4: a node matches the selector iff every selector key is present among
\* the node's labels with an equal value; extra labels never prevent a match,
\* a selector key absent from the node always does.
C4_SelectorAndSemantics ==
    /\ QueryResolved =>
          LET sel == QueriedMatchLabels IN
          \A i \in 1..Len(current_data.nodes) :
              LET node == current_data.nodes[i] IN
              (\E j \in 1..Len(mcp_nodes.nodes) : mcp_nodes.nodes[j] = node.metadata.name)
                  <=> \A k \in DOMAIN sel :
                         k \in DOMAIN node.metadata.labels /\ node.metadata.labels[k] = sel[k]
    /\ NodeMatchesSelector([role |-> "worker", zone |-> "us-east"],
                           [match_labels |-> [role |-> "worker"]])
    /\ ~NodeMatchesSelector([role |-> "master"], [match_labels |-> [role |-> "worker"]])

\* selector {role: worker}: a node with an extra label is returned, a node
\* without the role label is not
C4_Witness ==
    /\ QueryResolved
    /\ QueriedMatchLabels = [role |-> "worker"]
    /\ Len(current_data.nodes) = 2
    /\ current_data.nodes[1].metadata.labels = [role |-> "worker", zone |-> "us-east"]
    /\ current_data.nodes[2].metadata.labels = [zone |-> "us-east"]
    /\ mcp_nodes.nodes = << "1" >>

\* C5: by default an MCP whose match-labels map is empty does not match
\* every node.
C5_EmptySelectorMatchesNothingByDefault ==
    (/\ QueryResolved
     /\ QueriedMatchLabels = <<>>
     /\ current_data.nodes # <<>>)
        => Len(mcp_nodes.nodes) < Len(current_data.nodes)

----------------------------------------------------------------------------
(* src/resources/agents.py : AgentParser *)

MaxAgents == 2

\* the i-th Agent document of a bundle.  Its spec has no
\* clusterDeploymentName, or a reference whose name and namespace may be empty
\* strings; its conditions report zero, one or two failed installations, or
\* a completed one
AgentDocs(i) ==
    LET InstallFailed(message) ==
            [type |-> "Installed", status |-> "False", reason |-> "InstallationFailed",
             message |-> message]
        AgentSpecSamples ==
            {<<>>}
            \cup {[clusterDeploymentName |-> [name |-> n, namespace |-> ns]] :
                    <<n, ns>> \in {<<"c1", "ns1">>, <<"c2", "ns1">>, <<"c1", "">>, <<"", "">>}}
        AgentConditionSamples ==
            {<<>>,
             <<InstallFailed("m1")>>,
             <<InstallFailed("m1"), InstallFailed("m2")>>,
             <<[type |-> "Installed", status |-> "True", reason |-> "InstallationCompleted",
                message |-> "done"]>>}
    IN {[metadata |-> [name |-> ToString(i)], spec |-> s, status |-> [conditions |-> c]] :
           s \in AgentSpecSamples, c \in AgentConditionSamples}

\* _parse_single_agent: the fields the queries read; reason is overwritten by
\* each matching condition of the loop
ParseSingleAgent(agent_doc) ==
    LET metadata == Get(agent_doc, "metadata", <<>>)
        spec == Get(agent_doc, "spec", <<>>)
        status == Get(agent_doc, "status", <<>>)
        conditions == Get(status, "conditions", <<>>)
        hits == {i \in 1..Len(conditions) :
                    /\ Get(conditions[i], "type", None) = "Installed"
                    /\ Get(conditions[i], "status", None) = "False"
                    /\ Get(conditions[i], "reason", None) = "InstallationFailed"}
    IN [name |-> Get(metadata, "name", "unknown"),
        namespace |-> Get(metadata, "namespace", None),
        spec |-> spec,
        cluster_deployment_name |-> Get(Get(spec, "clusterDeploymentName", <<>>), "name", None),
        cluster_namespace |-> Get(Get(spec, "clusterDeploymentName", <<>>), "namespace", None),
        conditions |-> conditions,
        failed |-> hits # {},
        reason |-> IF hits = {} THEN None
                   ELSE Get(conditions[CHOOSE i \in hits : \A j \in hits : j <= i],
                            "message", None)]

\* find_agent_crs: the documents in bundle order
FindAgentCrs(docs) == Map(docs, ParseSingleAgent)

\* find_agents_belonging_to_cluster
FindAgentsBelongingToCluster(docs, cluster_name, cluster_namespace) ==
    LET Belongs(agent) ==
            /\ agent.cluster_deployment_name = cluster_name
            /\ agent.cluster_namespace = cluster_namespace
    IN Filter(FindAgentCrs(docs), Belongs)

\* AgentParser.get_failed_agents
GetFailedAgents(agents) ==
    LET Failed(agent) == agent.failed IN Filter(agents, Failed)

InitAgents ==
    /\ agent_docs = <<>>
    /\ found_agents = NoResult
    /\ OthersIdle("agents")

\* one more Agent document in the bundle
AddAgentDoc ==
    /\ found_agents = NoResult
    /\ Len(agent_docs) < MaxAgents
    /\ \E doc \in AgentDocs(Len(agent_docs) + 1) : agent_docs' = Append(agent_docs, doc)
    /\ UNCHANGED found_agents
    /\ OthersUnchanged("agents")

CallFindAgentsBelongingToCluster ==
    /\ found_agents = NoResult
    /\ \E cluster_name \in {"c1", "c2", ""}, cluster_namespace \in {"ns1", ""} :
          found_agents' =
              [op |-> "find_agents_belonging_to_cluster",
               cluster_name |-> cluster_name, cluster_namespace |-> cluster_namespace,
               agents |-> FindAgentsBelongingToCluster(agent_docs, cluster_name,
                                                       cluster_namespace)]
    /\ UNCHANGED agent_docs
    /\ OthersUnchanged("agents")

CallGetFailedAgents ==
    /\ found_agents = NoResult
    /\ found_agents' = [op |-> "get_failed_agents",
                        agents |-> GetFailedAgents(FindAgentCrs(agent_docs))]
    /\ UNCHANGED agent_docs
    /\ OthersUnchanged("agents")

NextAgents ==
    \/ AddAgentDoc
    \/ CallFindAgentsBelongingToCluster
    \/ CallGetFailedAgents

SpecAgents == InitAgents /\ [][NextAgents]_vars

----------------------------------------------------------------------------
(* SpecAgents : properties *)

\* C6: find_agents_belonging_to_cluster returns exactly the agents whose
\* (cluster-deployment name, namespace) pair equals the given pair, and no
\* agent at all when cluster_name or cluster_namespace is empty.
C6_ExactPairAndEmptyMatchesNothing ==
    (found_agents # NoResult /\ found_agents.op = "find_agents_belonging_to_cluster") =>
        LET Ref(doc) == Get(doc.spec, "clusterDeploymentName", <<>>)
            Belongs(doc) ==
                /\ DOMAIN Ref(doc) = {"name", "namespace"}
                /\ Ref(doc).name = found_agents.cluster_name
                /\ Ref(doc).namespace = found_agents.cluster_namespace
            NameOf(x) == x.metadata.name
            AgentName(a) == a.name
        IN /\ Map(found_agents.agents, AgentName) = Map(Filter(agent_docs, Belongs), NameOf)
           /\ (found_agents.cluster_name = "" \/ found_agents.cluster_namespace = "")
                 => found_agents.agents = <<>>

\* C18: an Agent whose condition list holds several conditions with
\* type=Installed, status=False, reason=InstallationFailed is returned with
\* failed = true and with the message of the first of them, in list order, as
\* its reason.
C18_FirstMatchingConditionWins ==
    (found_agents # NoResult /\ found_agents.op = "get_failed_agents") =>
        \A k \in 1..Len(found_agents.agents) :
            LET agent == found_agents.agents[k]
                conditions == agent.conditions
                hits == {i \in 1..Len(conditions) :
                            /\ conditions[i].type = "Installed"
                            /\ conditions[i].status = "False"
                            /\ conditions[i].reason = "InstallationFailed"}
                first == CHOOSE i \in hits : \A j \in hits : i <= j
            IN Cardinality(hits) >= 2 =>
                  /\ agent.failed
                  /\ agent.reason = conditions[first].message

----------------------------------------------------------------------------
(* src/main.py : get_logs over src/resources/logs.py : LogParser *)

MaxLines == 52

\* get_logs: chunk_size = 25
chunk_size == 25

\* a log line is the first level word it holds and the cluster name its text
\* mentions.  The i-th line of a log file in which every period-th line is an
\* ERROR of cluster c1; the others are INFO lines and lower-case errors of
\* cluster c2
LineAt(i, period) ==
    IF i % period = 0 THEN [level_word |-> "ERROR", cluster |-> "c1"]
    ELSE IF i % 2 = 0 THEN [level_word |-> "INFO", cluster |-> "c1"]
    ELSE [level_word |-> "error", cluster |-> "c2"]

\* _parse_log_line: level is the upper-cased level word, the message is the line
ParseLogLine(line, line_number) ==
    [level |-> IF line.level_word = "error" THEN "ERROR" ELSE line.level_word,
     message |-> line,
     line_number |-> line_number]

\* _parse_log_file: the ERROR entries whose message contains cluster_name,
\* in file order ('' is contained in every message).  With cluster_name None
\* the test "cluster_name in entry['message']" raises TypeError at the first
\* ERROR entry, and the except clause of the function returns [].
ParseLogFile(lines, cluster_name) ==
    LET Entry(i) == ParseLogLine(lines[i], i)
        Keep(i) == /\ Entry(i).level = "ERROR"
                   /\ (cluster_name = "" \/ Entry(i).message.cluster = cluster_name)
        F[i \in 0..Len(lines)] ==
            IF i = 0 THEN <<>>
            ELSE IF Keep(i) THEN Append(F[i - 1], Entry(i)) ELSE F[i - 1]
    IN IF cluster_name = None /\ \E i \in 1..Len(lines) : Entry(i).level = "ERROR"
       THEN <<>>
       ELSE F[Len(lines)]

\* LogParser.get_logs_by_pod over find_pod_logs and _parse_pod_logs, for a
\* pod whose logs directory holds the one log file
GetLogsByPod(lines, cluster_name) == ParseLogFile(lines, cluster_name)

\* parse_mg(must_gather_path, find_logs=True, ...): the entries LogParser
\* retains for the pod
ParseMgFindLogs(lines, cluster_name) == ParseLogFile(lines, cluster_name)

\* Python's s[start:stop] for integers start and stop
PySlice(s, start, stop) ==
    LET Norm(x) == IF x < 0 THEN (IF x + Len(s) < 0 THEN 0 ELSE x + Len(s))
                   ELSE IF x > Len(s) THEN Len(s) ELSE x
    IN SubSeq(s, Norm(start) + 1, Norm(stop))

\* mutant: the page also takes the element at the stop index
Paginate_InclusiveStop(logs, start_index, size) ==
    IF size > 0 THEN PySlice(logs, start_index, start_index + size + 1) ELSE logs

\* get_logs, lines 84-85: if chunk_size > 0: logs[start_index:start_index+chunk_size]
Paginate(logs, start_index, size) ==
    IF size > 0 THEN PySlice(logs, start_index, start_index + size) ELSE logs

\* get_logs
GetLogs(lines, cluster_name, start_index) ==
    Paginate(ParseMgFindLogs(lines, cluster_name), start_index, chunk_size)

InitLogs ==
    /\ log_lines = <<>>
    /\ log_calls = {}
    /\ OthersIdle("logs")

\* the bundle's log file
WriteLogFile ==
    /\ log_lines = <<>>
    /\ log_calls = {}
    /\ \E n \in 1..MaxLines, period \in 1..3 :
          log_lines' = [i \in 1..n |-> LineAt(i, period)]
    /\ UNCHANGED log_calls
    /\ OthersUnchanged("logs")

\* get_logs(must_gather_path, pod_name, namespace, cluster_name, start_index);
\* every call scans the bundle again
CallGetLogs ==
    /\ \E cluster_name \in {"c1", ""}, start_index \in {0, chunk_size, 2 * chunk_size} :
          log_calls' = log_calls \cup
              {[op |-> "get_logs", cluster_name |-> cluster_name,
                start_index |-> start_index,
                logs |-> GetLogs(log_lines, cluster_name, start_index)]}
    /\ UNCHANGED log_lines
    /\ OthersUnchanged("logs")

\* LogParser(must_gather_path).get_logs_by_pod(pod_name, namespace=...,
\* cluster_name=...); cluster_name defaults to None
CallGetLogsByPod ==
    /\ \E cluster_name \in {None, "c1"} :
          log_calls' = log_calls \cup
              {[op |-> "get_logs_by_pod", cluster_name |-> cluster_name,
                logs |-> GetLogsByPod(log_lines, cluster_name)]}
    /\ UNCHANGED log_lines
    /\ OthersUnchanged("logs")

NextLogs ==
    \/ WriteLogFile
    \/ CallGetLogs
    \/ CallGetLogsByPod

SpecLogs == InitLogs /\ [][NextLogs]_vars

----------------------------------------------------------------------------
(* SpecLogs : properties *)

\* C7: the page from start index 0 followed by the page from start index 25
\* is the page of size 50 from start index 0, which is the first 50 retained
\* entries in order: no entry lost, duplicated or reordered between pages.
C7_PagesConcatenate ==
    \A a, b \in log_calls :
        (/\ a.op = "get_logs" /\ b.op = "get_logs"
         /\ a.cluster_name = b.cluster_name /\ a.start_index = 0 /\ b.start_index = 25) =>
            LET retained == ParseMgFindLogs(log_lines, a.cluster_name)
                n == IF Len(retained) < 50 THEN Len(retained) ELSE 50
            IN /\ a.logs \o b.logs = Paginate(retained, 0, 50)
               /\ a.logs \o b.logs = [i \in 1..n |-> retained[i]]

\* more than 50 entries are retained and both pages were fetched
C7_Witness ==
    \E a, b \in log_calls :
        /\ a.op = "get_logs" /\ b.op = "get_logs"
        /\ a.cluster_name = b.cluster_name /\ a.start_index = 0 /\ b.start_index = 25
        /\ Len(ParseMgFindLogs(log_lines, a.cluster_name)) > 50
        /\ Len(a.logs) = 25 /\ Len(b.logs) = 25

\* C19: the log scanner keeps a line only if its level is ERROR and, when a
\* cluster-name filter is given, the filter occurs in the message; without a
\* filter it keeps every ERROR line of the pod's log file; the kept lines
\* carry their line numbers, increasing within the file.
C19_ErrorLinesRetained ==
    \A c \in log_calls :
        c.op = "get_logs_by_pod" =>
            LET IsError(i) == ParseLogLine(log_lines[i], i).level = "ERROR"
            IN /\ \A k \in 1..Len(c.logs) :
                     /\ c.logs[k].level = "ERROR"
                     /\ c.logs[k] = ParseLogLine(log_lines[c.logs[k].line_number],
                                                 c.logs[k].line_number)
                     /\ c.cluster_name # None => c.logs[k].message.cluster = c.cluster_name
                     /\ k > 1 => c.logs[k - 1].line_number < c.logs[k].line_number
               /\ c.cluster_name = None =>
                     \A i \in 1..Len(log_lines) :
                         IsError(i) => \E k \in 1..Len(c.logs) : c.logs[k].line_number = i

----------------------------------------------------------------------------
(* src/resources/tools.py : sanitize_data *)
(* A string is a sequence of tokens.  Each token stands for the characters  *)
(* of its name; "x" is one word character.  Over these tokens only the      *)
(* username and the password patterns of _sanitize_string can match: the    *)
(* e-mail, pull-secret, SSH, IPv4, IPv6, DNS and certificate patterns need  *)
(* '@', '.', '-', a digit, or a ':' next to a hex digit or another ':'.     *)

MaxTextLen == 5

InputTokens == {"pwd", "user", "=", " ", "'", "x"}

\* the tokens of the character classes of the two patterns:
\*   word   word characters only, so that no \b lies next to them; these are
\*          also the tokens of [a-zA-Z0-9_.-]
\*   sep    [\s:=]
\*   quote  ['"]
\*   value  [^\s'"]
TokenClass ==
    [word |-> {"x", "pwd", "user", "username", "password"},
     sep |-> {" ", ":", "="},
     quote |-> {"'"},
     value |-> {"x", "pwd", "user", "username", "password", "=", ":",
                "[REDACTED_PASSWORD]", "[REDACTED_USERNAME]"}]

\* the first index from i on whose token is not in cls
RunEnd(s, i, cls) ==
    LET stops == {j \in i..Len(s) : s[j] \notin cls}
    IN IF stops = {} THEN Len(s) + 1 ELSE CHOOSE j \in stops : \A k \in stops : j <= k

\* \b before the token at i
WordBoundaryBefore(s, i) == i = 1 \/ s[i - 1] \notin TokenClass.word

\* username_pattern tried at i: the index after the match, 0 without a match.
\* \b(?:user(?:name)?|admin|root)[\s:=]+['"]*([a-zA-Z0-9_.-]+)['"]*
MatchUsername(s, i) ==
    LET a == RunEnd(s, i + 1, TokenClass.sep)
        b == RunEnd(s, a, TokenClass.quote)
        c == RunEnd(s, b, TokenClass.word)
    IN IF s[i] \in {"user", "username"} /\ WordBoundaryBefore(s, i) /\ a > i + 1 /\ c > b
       THEN RunEnd(s, c, TokenClass.quote) ELSE 0

\* password_pattern tried at i: the index after the match, 0 without a match.
\* \b(?:password|pwd|passwd)[\s:=]+['"]*([^\s'"]+)['"]*
\* The greedy separator run gives back ':' and '=' to the value, longest run
\* first, when no value follows the whole run.
MatchPassword(s, i) ==
    LET a == RunEnd(s, i + 1, TokenClass.sep)
        b == RunEnd(s, a, TokenClass.quote)
        c == RunEnd(s, b, TokenClass.value)
        given == {k \in i + 2..a - 1 : s[k] \in TokenClass.value}
        k == CHOOSE x \in given : \A y \in given : y <= x
    IN IF ~(s[i] \in {"pwd", "password"} /\ WordBoundaryBefore(s, i) /\ a > i + 1) THEN 0
       ELSE IF c > b THEN RunEnd(s, c, TokenClass.quote)
       ELSE IF given # {} THEN RunEnd(s, RunEnd(s, k, TokenClass.value), TokenClass.quote)
       ELSE 0

\* re.sub(pattern, replacement, text): leftmost matches, left to right
ReSub(s, pattern) ==
    LET MatchAt(i) == IF pattern = "username" THEN MatchUsername(s, i)
                      ELSE MatchPassword(s, i)
        replacement == IF pattern = "username"
                       THEN <<"username", ":", " ", "[REDACTED_USERNAME]">>
                       ELSE <<"password", ":", " ", "[REDACTED_PASSWORD]">>
        G[i \in 1..Len(s) + 1] ==
            IF i > Len(s) THEN <<>>
            ELSE IF MatchAt(i) > 0 THEN replacement \o G[MatchAt(i)]
            ELSE <<s[i]>> \o G[i + 1]
    IN G[1]

\* _sanitize_string: the username substitution, then the password one
SanitizeString(s) == ReSub(ReSub(s, "username"), "password")

InitSanitize ==
    /\ text = <<>>
    /\ passes = <<>>
    /\ OthersIdle("sanitize")

\* the caller's string grows by one token
TypeToken ==
    /\ passes = <<>>
    /\ Len(text) < MaxTextLen
    /\ \E tok \in InputTokens : text' = Append(text, tok)
    /\ UNCHANGED passes
    /\ OthersUnchanged("sanitize")

\* sanitize_data(text), then sanitize_data of what it returned
SanitizeData ==
    /\ Len(passes) < 2
    /\ passes' = Append(passes, SanitizeString(IF passes = <<>> THEN text
                                               ELSE passes[Len(passes)]))
    /\ UNCHANGED text
    /\ OthersUnchanged("sanitize")

NextSanitize ==
    \/ TypeToken
    \/ SanitizeData

SpecSanitize == InitSanitize /\ [][NextSanitize]_vars

----------------------------------------------------------------------------
(* SpecSanitize : properties *)

\* C8: redaction is idempotent: a second sanitize_data pass returns its
\* input unchanged.
C8_SanitizeIdempotent ==
    Len(passes) = 2 => passes[2] = passes[1]

\* C21: redaction does not depend on the order of the pattern kinds: the
\* password substitution followed by the username substitution returns the
\* string that sanitize_data returns (username first, then password).
C21_RedactionOrderIndependent ==
    passes # <<>> => passes[1] = ReSub(ReSub(text, "password"), "username")

----------------------------------------------------------------------------
(* SpecAnalyzer : what the issue descriptions embed *)

\* C20: an issue description that embeds text of the bundle embeds it as
\* sanitize_data returns it: the description of a degraded-MCP issue holds
\* the sanitized message of a Degraded condition of the bundle, that of a
\* node issue the sanitized message of a node's Ready condition.
C20_DescriptionsEmbedSanitizedText ==
    result # NoResult =>
        \A k \in 1..Len(result.issues) :
            LET issue == result.issues[k]
                MessagesOf(docs, type) ==
                    {docs[i].status.conditions[j].message :
                        <<i, j>> \in {<<i, j>> \in (1..Len(docs)) \X (1..2) :
                                        /\ j <= Len(docs[i].status.conditions)
                                        /\ docs[i].status.conditions[j].type = type}}
            IN /\ issue.category = "degraded" =>
                     \E message \in MessagesOf(data.mcps, "Degraded") :
                         issue.description = SanitizeString(message)
               /\ issue.category = "nodes" =>
                     \E message \in MessagesOf(data.nodes, "Ready") :
                         issue.description = SanitizeString(message)

----------------------------------------------------------------------------
(* src/parsers.py : pod records, src/analyzers.py : PodAnalyzer *)

MaxPods == 1

\* status.containerStatuses of a Pod document; state is a dict with one key
ContainerStatusSamples ==
    LET Running(restarts) ==
            [name |-> "c", ready |-> TRUE, restartCount |-> restarts,
             state |-> [running |-> <<>>]]
    IN {<<>>,
        <<Running(0)>>, <<Running(3)>>, <<Running(6)>>, <<Running(12)>>,
        <<Running(6), [Running(6) EXCEPT !.name = "d"]>>,
        <<[name |-> "c", ready |-> FALSE, state |-> [waiting |-> <<>>]]>>}

\* the i-th Pod document of namespaces/ns1/core/pods.yaml
PodDocs(i) ==
    {[kind |-> "Pod", metadata |-> [name |-> ToString(i)],
      status |-> [phase |-> phase, containerStatuses |-> cs] @@ ready] :
        phase \in {"Running", "Pending"},
        cs \in ContainerStatusSamples,
        ready \in {<<>>} \cup {[conditions |-> <<[type |-> "Ready", status |-> s]>>] :
                                 s \in {"True", "False"}}}

\* events of the bundle: about the pod named "1" of ns1 or of ns2, about a
\* pod named "2", about the nodes named "1" and "2"
EventSamples ==
    LET Event(type, reason, namespace, kind, name) ==
            [type |-> type, reason |-> reason, message |-> "m", namespace |-> namespace,
             object |-> [kind |-> kind, name |-> name]]
    IN {<<Event("Warning", "Unhealthy", "ns1", "Pod", "1")>>,
        <<Event("Warning", "BackOff", "ns1", "Pod", "1")>>,
        <<Event("Normal", "Pulled", "ns1", "Pod", "1")>>,
        <<Event("Warning", "Unhealthy", "ns2", "Pod", "1")>>,
        <<Event("Warning", "BackOff", "ns1", "Pod", "2")>>,
        <<Event("Warning", "BackOff", "ns1", "Pod", "1"),
          Event("Warning", "BackOff", "ns2", "Pod", "1")>>,
        <<Event("Warning", "NodeNotReady", "default", "Node", "1"),
          Event("Warning", "NodeNotReady", "default", "Node", "2")>>,
        <<Event("Normal", "Starting", "default", "Node", "1"),
          Event("Warning", "Rebooted", "ns1", "Pod", "1")>>}

\* the i-th record _parse_nodes builds from nodes.yaml
NodeRecords(i) ==
    {[name |-> ToString(i), status |-> status, conditions |-> conditions] :
        status \in {"Ready", "NotReady"},
        conditions \in {<<>>,
                        <<[type |-> "MemoryPressure", status |-> "True"]>>,
                        <<[type |-> "Ready", status |-> "False", reason |-> "KubeletNotReady"]>>}}

\* _parse_pods_file with _get_pod_ready_status, _get_pod_restart_count and
\* _get_container_info
ParsePodsFile(docs) ==
    LET IsPod(doc) == Get(doc, "kind", None) = "Pod"
        IsReadyType(cond) == Get(cond, "type", None) = "Ready"
        ContainerInfo(status) ==
            [name |-> Get(status, "name", "unknown"),
             ready |-> Get(status, "ready", FALSE),
             restarts |-> Get(status, "restartCount", 0),
             state |-> IF Get(status, "state", <<>>) # <<>>
                       THEN CHOOSE k \in DOMAIN status.state : TRUE ELSE "unknown"]
        PodInfo(doc) ==
            LET status == Get(doc, "status", <<>>)
                ready == NextOr(Get(status, "conditions", <<>>), IsReadyType, <<>>)
                container_statuses == Get(status, "containerStatuses", <<>>)
                Sum[i \in 0..Len(container_statuses)] ==
                    IF i = 0 THEN 0
                    ELSE Sum[i - 1] + Get(container_statuses[i], "restartCount", 0)
            IN [name |-> Get(Get(doc, "metadata", <<>>), "name", "unknown"),
                phase |-> Get(status, "phase", "unknown"),
                ready |-> IF ready = <<>> THEN "Unknown"
                          ELSE IF Get(ready, "status", None) = "True" THEN "True"
                          ELSE "False",
                restarts |-> Sum[Len(container_statuses)],
                containers |-> Map(container_statuses, ContainerInfo)]
    IN Map(Filter(docs, IsPod), PodInfo)

\* mutant: the namespace of the event is not compared
PodWarningEvents_AnyNamespace(events, pod_name, ns_name) ==
    LET Related(event) ==
            /\ Get(Get(event, "object", <<>>), "kind", None) = "Pod"
            /\ Get(Get(event, "object", <<>>), "name", None) = pod_name
            /\ Get(event, "type", None) = "Warning"
    IN Filter(events, Related)

\* the Warning events PodAnalyzer.analyze relates to a pod
PodWarningEvents(events, pod_name, ns_name) ==
    LET Related(event) ==
            /\ Get(Get(event, "object", <<>>), "kind", None) = "Pod"
            /\ Get(Get(event, "object", <<>>), "name", None) = pod_name
            /\ Get(event, "namespace", None) = ns_name
            /\ Get(event, "type", None) = "Warning"
    IN Filter(events, Related)

\* mutant: no container-level restart check
PodIssues_PodLevelRestartsOnly(pod, warning_events) ==
    LET ContainerIssues(container) ==
            (IF ~container.ready
             THEN <<<<"Container is not ready", container.name>>>> ELSE <<>>)
            \o (IF container.state \in {"waiting", "terminated"}
                THEN <<<<"Container is in state", container.name, container.state>>>>
                ELSE <<>>)
        Actionable(event) ==
            Get(event, "reason", None) \in {"Failed", "FailedMount", "FailedScheduling",
                                            "Unhealthy"}
        EventIssue(event) == <<"Event", Get(event, "reason", "")>>
    IN (IF pod.ready = "False" THEN <<<<"Pod is not ready">>>> ELSE <<>>)
       \o (IF pod.restarts > 5
           THEN <<<<"High restart count", ToString(pod.restarts)>>>> ELSE <<>>)
       \o FlatMap(pod.containers, ContainerIssues)
       \o (IF pod.phase \in {"Failed", "Pending"}
           THEN <<<<"Pod is in state", pod.phase>>>> ELSE <<>>)
       \o Map(Filter(warning_events, Actionable), EventIssue)

\* pod_issues of PodAnalyzer.analyze, in the order they are appended
PodIssues(pod, warning_events) ==
    LET ContainerIssues(container) ==
            (IF ~container.ready
             THEN <<<<"Container is not ready", container.name>>>> ELSE <<>>)
            \o (IF container.state \in {"waiting", "terminated"}
                THEN <<<<"Container is in state", container.name, container.state>>>>
                ELSE <<>>)
            \o (IF container.restarts > 10
                THEN <<<<"Container has high restart count", container.name,
                         ToString(container.restarts)>>>>
                ELSE <<>>)
        Actionable(event) ==
            Get(event, "reason", None) \in {"Failed", "FailedMount", "FailedScheduling",
                                            "Unhealthy"}
        EventIssue(event) == <<"Event", Get(event, "reason", "")>>
    IN (IF pod.ready = "False" THEN <<<<"Pod is not ready">>>> ELSE <<>>)
       \o (IF pod.restarts > 5
           THEN <<<<"High restart count", ToString(pod.restarts)>>>> ELSE <<>>)
       \o FlatMap(pod.containers, ContainerIssues)
       \o (IF pod.phase \in {"Failed", "Pending"}
           THEN <<<<"Pod is in state", pod.phase>>>> ELSE <<>>)
       \o Map(Filter(warning_events, Actionable), EventIssue)

\* pod_warnings of PodAnalyzer.analyze
PodWarnings(pod, warning_events) ==
    LET NotActionable(event) ==
            Get(event, "reason", None) \notin {"Failed", "FailedMount", "FailedScheduling",
                                               "Unhealthy"}
        EventWarning(event) == <<"Event", Get(event, "reason", "")>>
    IN (IF pod.restarts > 0 /\ ~(pod.restarts > 5)
        THEN <<<<"Pod has restarted", ToString(pod.restarts)>>>> ELSE <<>>)
       \o Map(Filter(warning_events, NotActionable), EventWarning)

\* PodAnalyzer.analyze(must_gather_id, namespace)
PodAnalyze(d, namespace) ==
    LET namespaces_data ==
            IF namespace = None THEN Get(d, "namespaces", <<>>)
            ELSE [ns \in {namespace} |-> Get(Get(d, "namespaces", <<>>), ns, <<>>)]
        events == Get(d, "events", <<>>)
        \* one namespace directory in the bundle
        ns_name == "ns1"
        pods == IF ns_name \in DOMAIN namespaces_data
                THEN Get(namespaces_data[ns_name], "pods", <<>>) ELSE <<>>
        Entry(pod) ==
            LET warning_events == PodWarningEvents(events, pod.name, ns_name) IN
            [namespace |-> ns_name, name |-> pod.name, phase |-> pod.phase,
             ready |-> pod.ready, restarts |-> pod.restarts,
             issues |-> PodIssues(pod, warning_events),
             warnings |-> PodWarnings(pod, warning_events)]
        HasIssues(entry) == entry.issues # <<>>
        OnlyWarnings(entry) == entry.issues = <<>> /\ entry.warnings # <<>>
        Phase(name) == Cardinality({i \in 1..Len(pods) : pods[i].phase = name})
    IN [total_pods |-> Len(pods),
        failed_pods |-> Filter(Map(pods, Entry), HasIssues),
        warning_pods |-> Filter(Map(pods, Entry), OnlyWarnings),
        summary |->
            [running_pods |-> Phase("Running"),
             pending_pods |-> Phase("Pending"),
             pods_with_restarts |->
                 Cardinality({i \in 1..Len(pods) : pods[i].restarts > 0}),
             pods_not_ready |->
                 Cardinality({i \in 1..Len(pods) : pods[i].ready = "False"})]]

\* NodeAnalyzer.analyze(must_gather_id, node_name)
NodeAnalyze(d, node_name) ==
    LET all_nodes == Get(d, "nodes", <<>>)
        Named(node) == Get(node, "name", None) = node_name
        nodes == IF node_name # None THEN Filter(all_nodes, Named) ELSE all_nodes
        events == Get(d, "events", <<>>)
        Is(condition, types, status) ==
            /\ Get(condition, "type", "") \in types
            /\ Get(condition, "status", "") = status
        HasPressure(node) ==
            LET Pressure(c) == Is(c, {"MemoryPressure", "DiskPressure", "PIDPressure"}, "True")
            IN AnyOf(Get(node, "conditions", <<>>), Pressure)
        ConditionIssue(c) ==
            IF Is(c, {"MemoryPressure", "DiskPressure", "PIDPressure"}, "True")
            THEN << <<Get(c, "type", "")>> >>
            ELSE IF Get(c, "type", "") = "Ready" /\ Get(c, "status", "") # "True"
            THEN << <<"Not Ready">> >>
            ELSE IF Is(c, {"NetworkUnavailable"}, "True") THEN <<>>
            ELSE IF Get(c, "reason", "") \in {"KubeletNotReady", "ContainerRuntimeNotReady"}
            THEN << <<Get(c, "reason", "")>> >>
            ELSE <<>>
        ConditionWarning(c) ==
            IF /\ ~Is(c, {"MemoryPressure", "DiskPressure", "PIDPressure"}, "True")
               /\ ~(Get(c, "type", "") = "Ready" /\ Get(c, "status", "") # "True")
               /\ Is(c, {"NetworkUnavailable"}, "True")
            THEN << <<"Network issues">> >> ELSE <<>>
        NodeAnalysis(node) ==
            LET Related(event) ==
                    /\ Get(Get(event, "object", <<>>), "kind", None) = "Node"
                    /\ Get(Get(event, "object", <<>>), "name", None) = Get(node, "name", None)
                IsWarning(event) == Get(event, "type", None) = "Warning"
                EventWarning(event) == <<"Event", Get(event, "reason", "")>>
            IN [name |-> Get(node, "name", "unknown"),
                status |-> Get(node, "status", "unknown"),
                issues |-> (IF Get(node, "status", None) = "Ready" THEN <<>>
                            ELSE << <<"Node is not ready">> >>)
                           \o FlatMap(Get(node, "conditions", <<>>), ConditionIssue),
                warnings |-> FlatMap(Get(node, "conditions", <<>>), ConditionWarning)
                             \o Map(Filter(Filter(events, Related), IsWarning), EventWarning)]
        IsReady(node) == Get(node, "status", None) = "Ready"
        NotReady(node) == ~IsReady(node)
    IN IF d = <<>> THEN [error |-> "No data found for must-gather ID"]
       ELSE IF node_name # None /\ nodes = <<>> THEN [error |-> "Node not found"]
       ELSE [total_nodes |-> Len(nodes),
             node_issues |-> Map(nodes, NodeAnalysis),
             summary |->
                 [ready_nodes |-> Len(Filter(nodes, IsReady)),
                  not_ready_nodes |-> Len(Filter(nodes, NotReady)),
                  nodes_with_pressure |-> Len(Filter(nodes, HasPressure))]]

InitPods ==
    /\ pod_data = [pod_docs |-> <<>>, events |-> <<>>, nodes |-> <<>>]
    /\ pod_analysis = NoResult
    /\ OthersIdle("pods")

\* one more Pod document in the namespace's pods.yaml
AddPodDoc ==
    /\ pod_analysis = NoResult
    /\ pod_data.nodes = <<>>
    /\ Len(pod_data.pod_docs) < MaxPods
    /\ \E doc \in PodDocs(Len(pod_data.pod_docs) + 1) :
          pod_data' = [pod_data EXCEPT !.pod_docs = Append(@, doc)]
    /\ UNCHANGED pod_analysis
    /\ OthersUnchanged("pods")

\* the events of the bundle
AddEvents ==
    /\ pod_analysis = NoResult
    /\ pod_data.events = <<>>
    /\ \E events \in EventSamples : pod_data' = [pod_data EXCEPT !.events = events]
    /\ UNCHANGED pod_analysis
    /\ OthersUnchanged("pods")

\* one more Node document in nodes.yaml
AddNode ==
    /\ pod_analysis = NoResult
    /\ pod_data.pod_docs = <<>>
    /\ Len(pod_data.nodes) < MaxNodes
    /\ \E node \in NodeRecords(Len(pod_data.nodes) + 1) :
          pod_data' = [pod_data EXCEPT !.nodes = Append(@, node)]
    /\ UNCHANGED pod_analysis
    /\ OthersUnchanged("pods")

\* NodeAnalyzer.analyze over the parsed data of the bundle
CallNodeAnalyze ==
    /\ pod_analysis = NoResult
    /\ pod_data.pod_docs = <<>>
    /\ \E node_name \in {None, "1", "2"} :
          pod_analysis' =
              [op |-> "NodeAnalyzer", node_name |-> node_name,
               analysis |-> NodeAnalyze([nodes |-> pod_data.nodes,
                                         events |-> pod_data.events], node_name)]
    /\ UNCHANGED pod_data
    /\ OthersUnchanged("pods")

\* PodAnalyzer.analyze over the parsed data of the bundle
CallPodAnalyze ==
    /\ pod_analysis = NoResult
    /\ pod_data.nodes = <<>>
    /\ \E namespace \in {None, "ns1", "ns2"} :
          pod_analysis' =
              [op |-> "PodAnalyzer", namespace |-> namespace,
               analysis |->
                   PodAnalyze([namespaces |->
                                   [ns1 |-> [pods |-> ParsePodsFile(pod_data.pod_docs)]],
                               events |-> pod_data.events],
                              namespace)]
    /\ UNCHANGED pod_data
    /\ OthersUnchanged("pods")

NextPods ==
    \/ AddPodDoc
    \/ AddEvents
    \/ AddNode
    \/ CallPodAnalyze
    \/ CallNodeAnalyze

SpecPods == InitPods /\ [][NextPods]_vars

----------------------------------------------------------------------------
(* SpecPods : properties *)

\* the analysed pod document named after position i is not ready, has one
\* container with 12 restarts, and nothing else is wrong with it: the
\* container is ready and running, the phase is Running and no event is about
\* the pod
OnlyNotReadyAndTwelveRestarts(i) ==
    /\ pod_analysis.op = "PodAnalyzer"
    /\ pod_analysis.namespace \in {None, "ns1"}
    /\ i <= Len(pod_data.pod_docs)
    /\ LET status == pod_data.pod_docs[i].status IN
       /\ status.phase = "Running"
       /\ "conditions" \in DOMAIN status
       /\ status.conditions = <<[type |-> "Ready", status |-> "False"]>>
       /\ Len(status.containerStatuses) = 1
       /\ status.containerStatuses[1].ready
       /\ status.containerStatuses[1].restartCount = 12
       /\ DOMAIN status.containerStatuses[1].state = {"running"}
    /\ \A e \in 1..Len(pod_data.events) :
          ~(pod_data.events[e].type = "Warning" /\ pod_data.events[e].namespace = "ns1")

----------------------------------------------------------------------------
(* src/resources/clusters.py : ClusterParser *)

MaxClusters == 2

\* the i-th document of the agentclusterinstalls directory of namespace ns1
ClusterDocs(i) ==
    LET Completed(status, reason, message) ==
            [type |-> "Completed", status |-> status, reason |-> reason,
             message |-> message]
        ConditionSamples ==
            {<<>>,
             <<Completed("False", "InstallationFailed", "timeout")>>,
             <<Completed("False", "InstallationFailed", "timeout"),
               Completed("False", "InstallationFailed", "again")>>,
             <<Completed("False", "InstallationInProgress", "installing")>>,
             <<Completed("True", "InstallationCompleted", "done")>>}
    IN {[kind |-> kind, apiVersion |-> "extensions.hive.openshift.io/v1beta1",
         metadata |-> [name |-> ToString(i)], status |-> [conditions |-> c]] :
           kind \in {"AgentClusterInstall", "ClusterDeployment"}, c \in ConditionSamples}

\* _parse_single_cluster
ParseSingleCluster(cluster_doc, scope, namespace) ==
    LET metadata == Get(cluster_doc, "metadata", <<>>) IN
    [name |-> Get(metadata, "name", "unknown"),
     namespace |-> IF namespace # None THEN namespace ELSE Get(metadata, "namespace", None),
     scope |-> scope,
     creation_timestamp |-> Get(metadata, "creationTimestamp", None),
     labels |-> Get(metadata, "labels", <<>>),
     annotations |-> Get(metadata, "annotations", <<>>),
     api_version |-> Get(cluster_doc, "apiVersion", None),
     spec |-> Get(cluster_doc, "spec", <<>>),
     status |-> Get(cluster_doc, "status", <<>>)]

\* find_agentclusterinstall_crs: the AgentClusterInstall documents, parsed
\* (the apiVersion of every document starts with extensions.hive.openshift.io)
FindAgentClusterInstallCrs(docs) ==
    LET IsAgentClusterInstall(doc) == Get(doc, "kind", None) = "AgentClusterInstall"
        Parse(doc) == ParseSingleCluster(doc, "namespaced", "ns1")
    IN Map(Filter(docs, IsAgentClusterInstall), Parse)

\* _failed_clusters: the cluster is appended for each matching condition
FailedClusters(clusters) ==
    LET Matching(condition) ==
            /\ Get(condition, "type", None) = "Completed"
            /\ Get(condition, "status", None) = "False"
            /\ Get(condition, "reason", None) = "InstallationFailed"
        Appended(cluster) ==
            LET conditions == Get(Get(cluster, "status", <<>>), "conditions", <<>>)
            IN [i \in 1..Len(Filter(conditions, Matching)) |-> cluster]
    IN FlatMap(clusters, Appended)

InitClusters ==
    /\ cluster_docs = <<>>
    /\ failed_clusters = NoResult
    /\ OthersIdle("clusters")

\* one more document in the directory
AddClusterDoc ==
    /\ failed_clusters = NoResult
    /\ Len(cluster_docs) < MaxClusters
    /\ \E doc \in ClusterDocs(Len(cluster_docs) + 1) :
          cluster_docs' = Append(cluster_docs, doc)
    /\ UNCHANGED failed_clusters
    /\ OthersUnchanged("clusters")

\* get_failed_clusters
CallGetFailedClusters ==
    /\ failed_clusters = NoResult
    /\ LET clusters == FindAgentClusterInstallCrs(cluster_docs) IN
       failed_clusters' = [clusters |-> clusters, failed |-> FailedClusters(clusters)]
    /\ UNCHANGED cluster_docs
    /\ OthersUnchanged("clusters")

NextClusters ==
    \/ AddClusterDoc
    \/ CallGetFailedClusters

SpecClusters == InitClusters /\ [][NextClusters]_vars

----------------------------------------------------------------------------
(* SpecClusters : properties *)

\* C10: an AgentClusterInstall with a condition {Completed, False,
\* InstallationFailed, message m} is built into a record with failed = true
\* and reason = m and is reported exactly once, as a critical finding; one
\* without such a condition gets failed = false and is not reported.
C10_FailedClusterRecordAndReport ==
    failed_clusters # NoResult =>
        \A i \in 1..Len(cluster_docs) :
            LET doc == cluster_docs[i]
                hits == {k \in 1..Len(doc.status.conditions) :
                            /\ doc.status.conditions[k].type = "Completed"
                            /\ doc.status.conditions[k].status = "False"
                            /\ doc.status.conditions[k].reason = "InstallationFailed"}
                built == {k \in 1..Len(failed_clusters.clusters) :
                            failed_clusters.clusters[k].name = doc.metadata.name}
                reports == {k \in 1..Len(failed_clusters.failed) :
                              failed_clusters.failed[k].name = doc.metadata.name}
            IN doc.kind = "AgentClusterInstall" =>
                /\ Cardinality(built) = 1
                /\ \A k \in built :
                      LET record == failed_clusters.clusters[k] IN
                      /\ "failed" \in DOMAIN record /\ "reason" \in DOMAIN record
                      /\ record.failed = (hits # {})
                      /\ hits # {} =>
                            \E h \in hits : record.reason = doc.status.conditions[h].message
                /\ Cardinality(reports) = IF hits # {} THEN 1 ELSE 0
                /\ \A k \in reports :
                      /\ "severity" \in DOMAIN failed_clusters.failed[k]
                      /\ failed_clusters.failed[k].severity = "critical"

\* C30: the list of failed clusters holds each failed cluster at most once,
\* however many of its conditions match the failure signature: its length is
\* the number of distinct failed clusters.
C30_FailedClustersListedOnce ==
    failed_clusters # NoResult =>
        LET failed == failed_clusters.failed
            names == {failed[k].name : k \in 1..Len(failed)}
        IN /\ \A k, l \in 1..Len(failed) : failed[k].name = failed[l].name => k = l
           /\ Len(failed) = Cardinality(names)

----------------------------------------------------------------------------
(* src/parse.py : parse_must_gather, the archive resolver; and the other   *)
(* entry points over a bundle path                                         *)

\* names of the input path: Path(name).suffix and name.endswith('.tar.gz')
PathNames ==
    { [name |-> "mg.tar.gz", suffix |-> ".gz",  tar_gz |-> TRUE],
      [name |-> "mg.tgz",    suffix |-> ".tgz", tar_gz |-> FALSE],
      [name |-> "mg.gz",     suffix |-> ".gz",  tar_gz |-> FALSE],
      [name |-> "mg",        suffix |-> "",     tar_gz |-> FALSE] }

\* what a bundle root holds: cluster-scoped-resources (with or without
\* agent-install.openshift.io/agentserviceconfigs below it) and namespaces,
\* which is absent, a directory with one namespace holding one Agent file, or
\* a regular file: exists() is true of it and iterdir() raises
BundleTrees ==
    { [cluster_scoped |-> cs, agentserviceconfigs |-> asc, namespaces |-> ns] :
        cs \in BOOLEAN, asc \in BOOLEAN, ns \in {"absent", "dir", "file"} }

\* a directory with neither cluster-scoped-resources nor namespaces in it
EmptyTree ==
    [cluster_scoped |-> FALSE, agentserviceconfigs |-> FALSE, namespaces |-> "absent"]

\* the input paths: nothing there, a directory, or a regular file.  A file is
\* a gzip'ed tar that extracts (readable) or one on which tarfile raises.
\* nested: the bundle root is the single generated directory one level below
\* the directory / the archive's top level, as must-gather writes it.
MustGatherPaths ==
    { [kind |-> "missing", name |-> n, readable |-> FALSE, nested |-> FALSE,
       tree |-> EmptyTree] : n \in PathNames }
    \cup
    { [kind |-> "dir", name |-> n, readable |-> FALSE, nested |-> nd, tree |-> tr] :
        n \in PathNames, nd \in BOOLEAN,
        tr \in {b \in BundleTrees : b.agentserviceconfigs => b.cluster_scoped} }
    \cup
    { [kind |-> "file", name |-> n, readable |-> FALSE, nested |-> FALSE,
       tree |-> EmptyTree] : n \in PathNames }
    \cup
    { [kind |-> "file", name |-> n, readable |-> TRUE, nested |-> nd, tree |-> tr] :
        n \in PathNames, nd \in BOOLEAN,
        tr \in {b \in BundleTrees : b.agentserviceconfigs => b.cluster_scoped} }

\* what is directly inside the directory `path` (kind "dir")
TreeAt(path) == IF path.nested THEN EmptyTree ELSE path.tree

\* extract_must_gather_archive: mkdtemp comes first, then tarfile.open and
\* extractall, then the first directory of the extraction target or the
\* target itself.  parent is the directory above the returned path: the
\* must_gather_* temp dir, or the system temp dir when the target is returned.
ExtractMustGatherArchive(path) ==
    IF path.kind # "file" \/ ~path.readable
    THEN [raised |-> TRUE, temp_dir_created |-> TRUE, parent |-> None, tree |-> EmptyTree]
    ELSE LET extracted_dirs ==
                 path.nested \/ path.tree.cluster_scoped
                     \/ path.tree.namespaces = "dir"
         IN [raised |-> FALSE, temp_dir_created |-> TRUE,
             parent |-> IF extracted_dirs THEN "must_gather_temp_dir" ELSE "system_temp_dir",
             tree |-> IF path.nested THEN path.tree ELSE EmptyTree]

\* cleanup_extraction: TRUE when the temp dir is removed, i.e. when the name of
\* the parent of extracted_path contains 'must_gather_'
CleanupExtraction(parent) == parent = "must_gather_temp_dir"

\* assisted_service_active
AssistedServiceActive(tree) == tree.cluster_scoped /\ tree.agentserviceconfigs

\* find_agent_crs: namespaces_path.exists(), then iterdir()
FindAgentCrsIn(tree) ==
    CASE tree.namespaces = "absent" -> [raised |-> FALSE, agents |-> <<>>]
      [] tree.namespaces = "dir" -> [raised |-> FALSE, agents |-> << "agent-0" >>]
      [] tree.namespaces = "file" -> [raised |-> TRUE, agents |-> <<>>]

\* how a call ended
Run(entry, outcome, extraction_attempted, extracted, cleanup_calls, temp_dir_exists, agents) ==
    [entry |-> entry, outcome |-> outcome,
     extraction_attempted |-> extraction_attempted, extracted |-> extracted,
     cleanup_calls |-> cleanup_calls, temp_dir_exists |-> temp_dir_exists,
     agents |-> agents]

\* parse_must_gather of src/parse.py.  Outcomes: the agents list is returned;
\* the JSON with "Invalid must-gather path" is returned; the JSON with
\* "Failed to parse must-gather" is returned from the except clause.
\* `agents` is bound only when assisted_service_active(...) is true, so
\* "return agents" raises UnboundLocalError otherwise.
ParseMustGatherRun(path) ==
    LET entry == "parse.parse_must_gather"
        extract == (path.kind = "file" /\ path.name.suffix \in {".gz", ".tgz"})
                       \/ path.name.tar_gz
        ex == ExtractMustGatherArchive(path)
        Continue(tree, cleanup_needed, parent) ==
            LET active == AssistedServiceActive(tree)
                found == FindAgentCrsIn(tree)
                scan_raised == active /\ found.raised
                cleanup_calls == IF cleanup_needed /\ ~scan_raised THEN 1 ELSE 0
                temp_dir_exists ==
                    cleanup_needed /\ ~(cleanup_calls = 1 /\ CleanupExtraction(parent))
            IN IF active /\ ~scan_raised
               THEN Run(entry, "ok", cleanup_needed, cleanup_needed, cleanup_calls,
                        temp_dir_exists, found.agents)
               ELSE Run(entry, "failed_to_parse_error", cleanup_needed, cleanup_needed,
                        cleanup_calls, temp_dir_exists, <<>>)
    IN IF extract
       THEN IF ex.raised
            THEN Run(entry, "failed_to_parse_error", TRUE, FALSE, 0,
                     ex.temp_dir_created, <<>>)
            ELSE Continue(ex.tree, TRUE, ex.parent)
       ELSE IF path.kind = "dir"
            THEN Continue(TreeAt(path), FALSE, None)
            ELSE Run(entry, "invalid_path_error", FALSE, FALSE, 0, FALSE, <<>>)

\* MustGatherParser.parse_archive of src/parsers.py with _find_must_gather_root
\* and the passes of _parse_extracted_data: the extraction directory is made
\* first; any exception removes it and is re-raised; on success it is kept
\* for the returned must_gather_id.
ParseArchiveRun(path) ==
    LET entry == "parsers.parse_archive"
        extracted == path.kind = "file" /\ path.readable
        HasBundleDirs(tree) == tree.cluster_scoped \/ tree.namespaces # "absent"
        mg_root_found == HasBundleDirs(path.tree)
        scan_raised == mg_root_found /\ path.tree.namespaces = "file"
    IN IF ~extracted \/ ~mg_root_found \/ scan_raised
       THEN Run(entry, "raised", TRUE, extracted, 1, FALSE, <<>>)
       ELSE Run(entry, "ok", TRUE, TRUE, 0, TRUE, <<>>)

\* MCPMustGatherParser.parse_must_gather of src/parser.py: extraction into a
\* tempfile.TemporaryDirectory(), which is removed when the with block is
\* left, normally or by an exception; _parse_directory raises ValueError
\* unless a top-level entry is named must-gather*, and its passes catch
\* their own exceptions
McpParseMustGatherRun(path) ==
    LET entry == "parser.parse_must_gather"
        extracted == path.kind = "file" /\ path.readable
    IN IF extracted /\ path.nested
       THEN Run(entry, "ok", TRUE, TRUE, 1, FALSE, <<>>)
       ELSE Run(entry, "raised", TRUE, extracted, 1, FALSE, <<>>)

\* AgentParser(must_gather_path).find_agent_crs() of src/resources/agents.py:
\* no test of the path; namespaces is looked up below it
AgentParserFindAgentCrs(path) ==
    LET entry == "agents.find_agent_crs"
        found == FindAgentCrsIn(IF path.kind = "dir" THEN TreeAt(path) ELSE EmptyTree)
    IN Run(entry, IF found.raised THEN "raised" ELSE "ok", FALSE, FALSE, 0, FALSE,
           found.agents)

----------------------------------------------------------------------------
(* SpecResolver : actions *)

InitResolver ==
    /\ must_gather_path = NoData
    /\ parse_run = NoResult
    /\ OthersIdle("resolver")

\* the caller names a path
ChoosePath ==
    /\ must_gather_path = NoData
    /\ \E path \in MustGatherPaths : must_gather_path' = path
    /\ UNCHANGED parse_run
    /\ OthersUnchanged("resolver")

CallParseMustGather ==
    /\ must_gather_path # NoData /\ parse_run = NoResult
    /\ parse_run' = ParseMustGatherRun(must_gather_path)
    /\ UNCHANGED must_gather_path
    /\ OthersUnchanged("resolver")

CallParseArchive ==
    /\ must_gather_path # NoData /\ parse_run = NoResult
    /\ parse_run' = ParseArchiveRun(must_gather_path)
    /\ UNCHANGED must_gather_path
    /\ OthersUnchanged("resolver")

CallMcpParseMustGather ==
    /\ must_gather_path # NoData /\ parse_run = NoResult
    /\ parse_run' = McpParseMustGatherRun(must_gather_path)
    /\ UNCHANGED must_gather_path
    /\ OthersUnchanged("resolver")

CallAgentParserFindAgentCrs ==
    /\ must_gather_path # NoData /\ parse_run = NoResult
    /\ parse_run' = AgentParserFindAgentCrs(must_gather_path)
    /\ UNCHANGED must_gather_path
    /\ OthersUnchanged("resolver")

NextResolver ==
    \/ ChoosePath
    \/ CallParseMustGather
    \/ CallParseArchive
    \/ CallMcpParseMustGather
    \/ CallAgentParserFindAgentCrs

SpecResolver == InitResolver /\ [][NextResolver]_vars

----------------------------------------------------------------------------
(* SpecResolver : properties *)

\* C12: a parse of an existing directory that holds neither
\* cluster-scoped-resources nor namespaces ends in the invalid-input error and
\* never in a successful (possibly empty) result.
C12_DirectoryWithoutBundleFails ==
    (/\ parse_run # NoResult
     /\ parse_run.entry \in {"parse.parse_must_gather", "agents.find_agent_crs"}
     /\ must_gather_path.kind = "dir"
     /\ TreeAt(must_gather_path) = EmptyTree) =>
        /\ parse_run.outcome # "ok"
        /\ parse_run.outcome = "invalid_path_error"

\* C14: when parse_must_gather extracted an archive itself, cleanup of the
\* extraction is invoked exactly once before it returns, however the run
\* ends; when the input was a directory, cleanup is never invoked.
C14_CleanupExactlyOnceWhenExtracted ==
    (parse_run # NoResult /\ parse_run.entry = "parse.parse_must_gather") =>
        /\ parse_run.extracted => parse_run.cleanup_calls = 1
        /\ ~parse_run.extracted => parse_run.cleanup_calls = 0
        /\ must_gather_path.kind = "dir" => parse_run.cleanup_calls = 0

\* C15: when the extraction of an archive fails, the call ends in an error and
\* the extraction directory made for that call does not exist afterwards.
C15_FailedExtractionLeavesNoDirectory ==
    (/\ parse_run # NoResult
     /\ parse_run.entry \in {"parse.parse_must_gather", "parsers.parse_archive",
                              "parser.parse_must_gather"}
     /\ must_gather_path.kind = "file"
     /\ parse_run.extraction_attempted
     /\ ~parse_run.extracted) =>
        /\ parse_run.outcome \in {"raised", "failed_to_parse_error"}
        /\ ~parse_run.temp_dir_exists

\* C16: the resolver of parse_must_gather puts its input in exactly one of
\* three classes.  A regular file named *.tar.gz or *.tgz is extracted; a
\* directory, whatever its name, is used directly, with no extraction and no
\* cleanup; anything else ends in the invalid-input error and nothing is
\* extracted.
C16_ResolverThreeOutcomes ==
    (parse_run # NoResult /\ parse_run.entry = "parse.parse_must_gather") =>
        LET path == must_gather_path
            archive_name == path.name.name \in {"mg.tar.gz", "mg.tgz"}
        IN /\ (path.kind = "file" /\ archive_name) => parse_run.extraction_attempted
           /\ path.kind = "dir" =>
                 /\ ~parse_run.extraction_attempted
                 /\ parse_run.cleanup_calls = 0
                 /\ parse_run.outcome # "invalid_path_error"
           /\ (path.kind = "missing" \/ (path.kind = "file" /\ ~archive_name)) =>
                 /\ parse_run.outcome = "invalid_path_error"
                 /\ ~parse_run.extraction_attempted
                 /\ ~parse_run.temp_dir_exists

----------------------------------------------------------------------------
(* The file loops over one resource directory: src/parser.py _parse_mcps   *)
(* and src/resources/agents.py _parse_agent_files                          *)

MaxFiles == 3

\* _parse_agent_files with _parse_agent_yaml_file: the try / except is inside
\* the per-file function, so a file on which open() or yaml raises gives no
\* document and the loop goes on
ParseAgentFiles(files) ==
    LET ParseAgentYamlFile(file) ==
            IF file.content = "document" THEN << file.name >> ELSE <<>>
    IN FlatMap(files, ParseAgentYamlFile)

\* _parse_mcps: one try / except around the whole for loop, so the first file
\* on which open() or yaml.safe_load raises ends the loop; the documents
\* appended before it are kept
ParseMcps(files) ==
    LET raising == {i \in 1..Len(files) : files[i].content # "document"}
        last == IF raising = {} THEN Len(files)
                ELSE (CHOOSE i \in raising : \A j \in raising : i <= j) - 1
    IN [i \in 1..last |-> files[i].name]

InitScan ==
    /\ scan_files = <<>>
    /\ scan_result = NoResult
    /\ OthersIdle("scan")

\* the next entry of the directory listing: a .yaml file holding one
\* well-formed document of the kind looked for, one that cannot be opened, or
\* one whose content is not YAML
ListFile ==
    /\ scan_result = NoResult
    /\ Len(scan_files) < MaxFiles
    /\ \E content \in {"document", "unreadable", "malformed"} :
          scan_files' = Append(scan_files,
                               [name |-> ToString(Len(scan_files) + 1), content |-> content])
    /\ UNCHANGED scan_result
    /\ OthersUnchanged("scan")

CallParseAgentFiles ==
    /\ scan_result = NoResult
    /\ scan_result' = [scan |-> "_parse_agent_files", kept |-> ParseAgentFiles(scan_files)]
    /\ UNCHANGED scan_files
    /\ OthersUnchanged("scan")

CallParseMcps ==
    /\ scan_result = NoResult
    /\ scan_result' = [scan |-> "_parse_mcps", kept |-> ParseMcps(scan_files)]
    /\ UNCHANGED scan_files
    /\ OthersUnchanged("scan")

NextScan ==
    \/ ListFile
    \/ CallParseAgentFiles
    \/ CallParseMcps

SpecScan == InitScan /\ [][NextScan]_vars

\* C17: a file that cannot be opened or that fails to parse is skipped and
\* does not end the scan of its directory: the document of every well-formed
\* file of the directory is among those the scan returns, wherever the bad
\* file comes in the listing.
C17_BadFileNeverAbortsScan ==
    scan_result # NoResult =>
        \A i \in 1..Len(scan_files) :
            scan_files[i].content = "document" =>
                Count(scan_files[i].name, scan_result.kept) = 1

----------------------------------------------------------------------------
(* src/resources/logs.py : LogParser.find_pod_logs and                      *)
(* find_pod_logs_directory over the directories of a bundle                 *)

MaxNamespaces == 2

\* a directory entry: its name, whether it is a directory, and what
\* iterdir() lists in it, in listing order
Entry(name, kind, children) == [name |-> name, kind |-> kind, children |-> children]

\* what can lie below a pod directory: a file, an empty directory, a 'logs'
\* directory, and a container directory holding one or two of these
PodDirChildren ==
    LET leaves == {Entry("f", "file", <<>>), Entry("logs", "dir", <<>>),
                   Entry("c", "dir", <<>>)}
    IN leaves \cup {Entry("c", "dir", <<a>>) : a \in leaves}
              \cup {Entry("c", "dir", <<a, b>>) : <<a, b>> \in leaves \X leaves}

PodDirs ==
    {Entry("pod", "dir", <<>>)}
      \cup {Entry("pod", "dir", <<a>>) : a \in PodDirChildren}
      \cup {Entry("pod", "dir", <<a, b>>) : <<a, b>> \in PodDirChildren \X PodDirChildren}

\* str.startswith over the names of the sample directories
StartsWith(name, prefix) ==
    prefix \in (CASE name = "a" -> {"", "a"}
                  [] name = "ab" -> {"", "a", "ab"}
                  [] name = "b" -> {"", "b"}
                  [] name = "pod" -> {"", "p", "pod"}
                  [] OTHER -> {""})

\* the entries namespaces_path.iterdir() can list: a namespace directory
\* without a pods directory, one with an empty pods directory, one whose
\* pods directory holds a pod, and a regular file
NamespaceEntries ==
    {Entry(name, kind, children) :
        <<name, kind, children>> \in {"a", "ab", "b"} \X {"dir", "file"}
            \X ({<<>>} \cup
                {<<Entry("pods", "dir", pods)>> :
                    pods \in {<<>>,
                              <<Entry("pod", "dir", <<Entry("logs", "dir", <<>>)>>)>>,
                              <<Entry("pod", "dir", <<Entry("f", "file", <<>>),
                                                      Entry("logs", "dir", <<>>)>>)>>}})}

RECURSIVE FindPodLogsDirectory(_)
FindPodLogsDirectory(pod_dir) ==
    IF pod_dir.kind = "dir" /\ pod_dir.name = "logs" THEN pod_dir
    ELSE IF pod_dir.kind # "dir" THEN NoData
    ELSE IF pod_dir.children # <<>> THEN FindPodLogsDirectory(pod_dir.children[1])
    ELSE NoData

\* find_pod_logs over the listing of namespaces/: the namespace directories
\* whose pods directory was looked for, and one entry per pod whose logs
\* directory was parsed
FindPodLogs(namespace_dirs, pod_name, namespace0) ==
    LET Names == {namespace_dirs[i].name : i \in 1..Len(namespace_dirs)} \cup {namespace0}
        PodLogs(namespace_dir) ==
            IF namespace_dir.children = <<>> THEN <<>>
            ELSE LET pods == namespace_dir.children[1].children
                     P[j \in 1..Len(pods) + 1] ==
                         IF j > Len(pods) THEN <<>>
                         ELSE IF /\ pods[j].kind = "dir"
                                 /\ (pod_name = None \/ StartsWith(pods[j].name, pod_name))
                                 /\ FindPodLogsDirectory(pods[j]) # NoData
                              THEN <<[namespace |-> namespace_dir.name,
                                      pod_name |-> pods[j].name]>> \o P[j + 1]
                              ELSE P[j + 1]
                 IN P[1]
        F[i \in 1..Len(namespace_dirs) + 1, namespace \in Names] ==
            IF i > Len(namespace_dirs) THEN [scanned |-> <<>>, logs |-> <<>>]
            ELSE LET namespace_dir == namespace_dirs[i]
                 IN IF /\ namespace_dir.kind = "dir"
                       /\ (namespace = None \/ StartsWith(namespace_dir.name, namespace))
                    THEN LET rest == F[i + 1, namespace_dir.name]
                         IN [scanned |-> <<namespace_dir.name>> \o rest.scanned,
                             logs |-> PodLogs(namespace_dir) \o rest.logs]
                    ELSE F[i + 1, namespace]
    IN F[1, namespace0]

----------------------------------------------------------------------------
(* SpecPodDirs : actions *)

InitPodDirs ==
    /\ bundle_dirs = [pod_dir |-> NoData, namespaces |-> <<>>]
    /\ dir_search = NoResult
    /\ OthersIdle("poddirs")

\* the bundle holds this pod directory
MakePodDir ==
    /\ dir_search = NoResult
    /\ bundle_dirs.pod_dir = NoData /\ bundle_dirs.namespaces = <<>>
    /\ \E pod_dir \in PodDirs : bundle_dirs' = [bundle_dirs EXCEPT !.pod_dir = pod_dir]
    /\ UNCHANGED dir_search
    /\ OthersUnchanged("poddirs")

\* namespaces/ lists one more entry
MakeNamespaceEntry ==
    /\ dir_search = NoResult
    /\ bundle_dirs.pod_dir = NoData
    /\ Len(bundle_dirs.namespaces) < MaxNamespaces
    /\ \E e \in NamespaceEntries :
          /\ \A i \in 1..Len(bundle_dirs.namespaces) : bundle_dirs.namespaces[i].name # e.name
          /\ bundle_dirs' = [bundle_dirs EXCEPT !.namespaces = Append(@, e)]
    /\ UNCHANGED dir_search
    /\ OthersUnchanged("poddirs")

CallFindPodLogsDirectory ==
    /\ dir_search = NoResult
    /\ bundle_dirs.pod_dir # NoData
    /\ dir_search' = [op |-> "find_pod_logs_directory",
                      found |-> FindPodLogsDirectory(bundle_dirs.pod_dir)]
    /\ UNCHANGED bundle_dirs
    /\ OthersUnchanged("poddirs")

CallFindPodLogs ==
    /\ dir_search = NoResult
    /\ bundle_dirs.pod_dir = NoData
    /\ \E pod_name \in {None, "pod"}, namespace \in {None, "a", "ab", "b"} :
          dir_search' = [op |-> "find_pod_logs", pod_name |-> pod_name,
                         namespace |-> namespace,
                         found |-> FindPodLogs(bundle_dirs.namespaces, pod_name, namespace)]
    /\ UNCHANGED bundle_dirs
    /\ OthersUnchanged("poddirs")

NextPodDirs ==
    \/ MakePodDir
    \/ MakeNamespaceEntry
    \/ CallFindPodLogsDirectory
    \/ CallFindPodLogs

SpecPodDirs == InitPodDirs /\ [][NextPodDirs]_vars

----------------------------------------------------------------------------
(* SpecPodDirs : properties *)

\* C22: whenever a directory named 'logs' lies anywhere beneath the pod
\* directory, find_pod_logs_directory returns a directory named 'logs'; it
\* returns nothing only when there is none.
C22_FindsLogsDirectoryWhenOneExists ==
    (dir_search # NoResult /\ dir_search.op = "find_pod_logs_directory") =>
        LET IsLogs(e) == e.kind = "dir" /\ e.name = "logs"
            Below(e) == {e.children[i] : i \in 1..Len(e.children)}
            level1 == Below(bundle_dirs.pod_dir)
            level2 == UNION {Below(e) : e \in level1}
            exists == \E e \in level1 \cup level2 : IsLogs(e)
        IN /\ exists => (dir_search.found # NoData /\ IsLogs(dir_search.found))
           /\ dir_search.found = NoData => ~exists

\* C29: without a namespace filter find_pod_logs scans every namespace
\* directory of the bundle; with a filter it scans the namespace directories
\* whose name starts with the filter, whatever the listing order.
C29_ScannedNamespacesFollowFilter ==
    (dir_search # NoResult /\ dir_search.op = "find_pod_logs") =>
        LET dirs == bundle_dirs.namespaces
            wanted == {dirs[i].name : i \in {i \in 1..Len(dirs) :
                          /\ dirs[i].kind = "dir"
                          /\ (dir_search.namespace = None
                              \/ StartsWith(dirs[i].name, dir_search.namespace))}}
            scanned == dir_search.found.scanned
        IN {scanned[i] : i \in 1..Len(scanned)} = wanted

----------------------------------------------------------------------------
(* src/parser.py : MCPMustGatherParser._parse_directory, the six passes it  *)
(* hands to asyncio.gather.  No pass awaits anything, so the event loop     *)
(* runs them one after the other; the model lets the passes take their      *)
(* per-file steps in every order, which includes that schedule.             *)

PassKinds == {"cluster_info", "mcps", "nodes", "machine_configs", "events", "logs"}

\* the field of parsed_data the pass of a kind assigns or appends to
\* mutant: the nodes pass appends to the list of the mcps pass
AccumulatorOf_Shared(kind) ==
    IF kind = "cluster_info" THEN "cluster_version"
    ELSE IF kind = "nodes" THEN "mcps" ELSE kind

AccumulatorOf(kind) == IF kind = "cluster_info" THEN "cluster_version" ELSE kind

\* the listings of a resource directory: the files are named after the kind
\* and their position; a file is a YAML document or one that makes open() or
\* yaml.safe_load raise
DirectoryListings(kind) ==
    LET File(i, content) == [name |-> <<kind, i>>, content |-> content]
    IN << <<>>,
          <<File(1, "document")>>,
          <<File(1, "document"), File(2, "document")>>,
          <<File(1, "document"), File(2, "malformed")>>,
          <<File(1, "malformed"), File(2, "document")>> >>

\* ParsedMustGatherData(); cluster_version is the empty list for None
EmptyParsedData ==
    [cluster_version |-> <<>>, mcps |-> <<>>, nodes |-> <<>>,
     machine_configs |-> <<>>, events |-> <<>>, logs |-> <<>>]

InitGather ==
    /\ gather_passes = NoData
    /\ gathered = NoResult
    /\ OthersIdle("gather")

\* _parse_directory up to the asyncio.gather call: without a must-gather*
\* directory it raises, otherwise the six passes are started on one
\* ParsedMustGatherData
StartParseDirectory ==
    /\ gather_passes = NoData
    /\ \E cluster_dir_found \in BOOLEAN :
          IF cluster_dir_found
          THEN \E a \in 1..5, b \in 1..5 :
                  LET Listing(kind) ==
                          DirectoryListings(kind)[IF kind \in {"cluster_info", "mcps", "events"}
                                                  THEN a ELSE b]
                  IN /\ gather_passes' = [bundle |-> [kind \in PassKinds |-> Listing(kind)],
                                          pos |-> [kind \in PassKinds |-> 1],
                                          pc |-> [kind \in PassKinds |-> "running"]]
                     /\ gathered' = [parsed_data |-> EmptyParsedData, returned |-> FALSE,
                                     raised |-> FALSE]
          ELSE /\ gather_passes' = [bundle |-> [kind \in PassKinds |-> <<>>],
                                    pos |-> [kind \in PassKinds |-> 1],
                                    pc |-> [kind \in PassKinds |-> "not started"]]
               /\ gathered' = [parsed_data |-> EmptyParsedData, returned |-> FALSE,
                               raised |-> TRUE]
    /\ OthersUnchanged("gather")

\* one pass handles its next file: past the last file the loop ends; a file
\* that raises ends the loop in the except clause of the pass; a document is
\* appended to the pass's list (the cluster-info pass assigns and breaks)
PassStep ==
    /\ gather_passes # NoData
    /\ \E kind \in PassKinds :
          /\ gather_passes.pc[kind] = "running"
          /\ LET files == gather_passes.bundle[kind]
                 i == gather_passes.pos[kind]
                 field == AccumulatorOf(kind)
             IN IF i > Len(files) \/ files[i].content # "document"
                THEN /\ gather_passes' = [gather_passes EXCEPT !.pc[kind] = "done"]
                     /\ UNCHANGED gathered
                ELSE /\ gather_passes' =
                            [gather_passes EXCEPT !.pos[kind] = i + 1,
                                                  !.pc[kind] = IF kind = "cluster_info"
                                                               THEN "done" ELSE "running"]
                     /\ gathered' = [gathered EXCEPT
                                        !.parsed_data[field] = Append(@, files[i].name)]
    /\ OthersUnchanged("gather")

\* asyncio.gather returns when every pass has returned; _parse_directory
\* then returns parsed_data
GatherReturn ==
    /\ gather_passes # NoData
    /\ \A kind \in PassKinds : gather_passes.pc[kind] = "done"
    /\ ~gathered.returned
    /\ gathered' = [gathered EXCEPT !.returned = TRUE]
    /\ UNCHANGED gather_passes
    /\ OthersUnchanged("gather")

NextGather ==
    \/ StartParseDirectory
    \/ PassStep
    \/ GatherReturn

SpecGather == InitGather /\ [][NextGather]_vars

----------------------------------------------------------------------------
(* SpecGather : properties *)

\* C26: each pass writes only to its own field of the parse result; whatever
\* the order of the passes' steps, once all passes have completed every field
\* holds what its pass alone produces from its directory, and the result is
\* returned only after all passes have completed.
C26_PassesWriteOwnAccumulator ==
    gather_passes # NoData =>
        LET parsed_data == gathered.parsed_data
            all_done == \A kind \in PassKinds : gather_passes.pc[kind] = "done"
            Alone(kind) ==
                LET documents == ParseMcps(gather_passes.bundle[kind])
                IN IF kind = "cluster_info" /\ documents # <<>>
                   THEN <<documents[1]>> ELSE documents
        IN /\ \A kind \in PassKinds :
                 LET field == parsed_data[IF kind = "cluster_info"
                                          THEN "cluster_version" ELSE kind]
                 IN /\ \A i \in 1..Len(field) : field[i][1] = kind
                    /\ all_done => field = Alone(kind)
           /\ gathered.returned => all_done

C26_Witness ==
    /\ gather_passes # NoData
    /\ gathered.returned
    /\ Len(gathered.parsed_data.mcps) = 2
    /\ Len(gathered.parsed_data.nodes) = 1
    /\ Len(gather_passes.bundle["nodes"]) = 2
    /\ gathered.parsed_data.cluster_version # <<>>

----------------------------------------------------------------------------
(* src/resources.py : MustGatherResources, the store of parsed data keyed   *)
(* by must-gather id, as src/parsers.py, src/analyzers.py and src/cli.py    *)
(* use it                                                                   *)

MaxArchives == 2

\* what _parse_extracted_data returns for the archives of the model
ParsedDataSamples ==
    {[cluster_info |-> [version |-> v], nodes |-> nodes] :
        v \in {"4.1"}, nodes \in {<<>>, <<[name |-> "1", status |-> "Ready"]>>}}

\* MustGatherResources._load_existing_data: one entry per <id>.json file of
\* the storage directory
LoadExistingData(files) == files

\* MustGatherResources.get_parsed_data over the instance's _parsed_data
GetParsedData(parsed_data, must_gather_id) ==
    IF must_gather_id \in DOMAIN parsed_data THEN parsed_data[must_gather_id] ELSE NoData

\* the operations keyed by a must-gather id: each constructs a
\* MustGatherResources, whose _parsed_data is the empty dict, and asks it for
\* the data of the id without calling initialize()
ReadById(op, must_gather_id) ==
    LET resources == <<>>
        found == GetParsedData(resources, must_gather_id)
    IN IF found = NoData
       THEN [op |-> op, must_gather_id |-> must_gather_id, missing |-> TRUE,
             returned |-> IF op \in {"get_parse_summary", "get_cluster_info"} THEN "{}"
                          ELSE IF op = "extract_resources" THEN "[]"
                          ELSE "No data found for must-gather ID"]
       ELSE [op |-> op, must_gather_id |-> must_gather_id, missing |-> FALSE,
             returned |-> "read from the data"]

InitStore ==
    /\ storage = [files |-> <<>>, returned_ids |-> {}, removed_ids |-> {}]
    /\ store_call = NoResult
    /\ OthersIdle("store")

\* parse_archive: a new id; when extraction and parsing succeed the data is
\* put into a new MustGatherResources, which also writes <id>.json (a failed
\* write is logged and ignored), and the id is returned; otherwise the
\* exception is raised again
CallParseArchiveAndStore ==
    /\ Cardinality(storage.returned_ids) < MaxArchives
    /\ LET must_gather_id == Cardinality(storage.returned_ids) + 1 IN
       \E extracted \in BOOLEAN, saved \in BOOLEAN, parsed \in ParsedDataSamples :
          IF extracted
          THEN /\ storage' = [storage EXCEPT
                                 !.files = IF saved THEN (must_gather_id :> parsed) @@ @ ELSE @,
                                 !.returned_ids = @ \cup {must_gather_id}]
               /\ store_call' = [op |-> "parse_archive", must_gather_id |-> must_gather_id,
                                 missing |-> FALSE, returned |-> "must_gather_id"]
          ELSE /\ UNCHANGED storage
               /\ store_call' = [op |-> "parse_archive", must_gather_id |-> must_gather_id,
                                 missing |-> FALSE, returned |-> "raised"]
    /\ OthersUnchanged("store")

\* get_parse_summary, extract_resources, get_cluster_info and the analyze
\* methods of the cluster, node and pod analyzers
CallReadById ==
    /\ \E op \in {"get_parse_summary", "extract_resources", "get_cluster_info",
                  "ClusterAnalyzer.analyze", "NodeAnalyzer.analyze", "PodAnalyzer.analyze"},
          must_gather_id \in 1..MaxArchives :
          store_call' = ReadById(op, must_gather_id)
    /\ UNCHANGED storage
    /\ OthersUnchanged("store")

\* the remove command of src/cli.py: initialize(), then remove_parsed_data
CallRemoveParsedData ==
    /\ \E must_gather_id \in 1..MaxArchives :
          LET parsed_data == LoadExistingData(storage.files) IN
          /\ storage' =
                IF must_gather_id \in DOMAIN parsed_data
                THEN [storage EXCEPT
                         !.files = [k \in DOMAIN @ \ {must_gather_id} |-> @[k]],
                         !.removed_ids = @ \cup {must_gather_id}]
                ELSE storage
          /\ store_call' = [op |-> "remove", must_gather_id |-> must_gather_id,
                            missing |-> must_gather_id \notin DOMAIN parsed_data,
                            returned |-> "None"]
    /\ OthersUnchanged("store")

NextStore ==
    \/ CallParseArchiveAndStore
    \/ CallReadById
    \/ CallRemoveParsedData

SpecStore == InitStore /\ [][NextStore]_vars

----------------------------------------------------------------------------
(* SpecStore : properties *)

\* C27: after parse_archive has returned an id, an operation keyed by that
\* id reads the data stored for it and does not report it missing or empty,
\* as long as the data was not removed.
C27_ReturnedIdIsReadable ==
    (/\ store_call # NoResult
     /\ store_call.op \notin {"parse_archive", "remove"}
     /\ store_call.must_gather_id \in storage.returned_ids \ storage.removed_ids)
    => ~store_call.missing

====
